---- MODULE Spec2Model ----
(***************************************************************************)
(* RadDB-rs: the persistent tuple store (Block, BlockDirectory, Lock) of   *)
(* rad_db-structure, modelled from the Rust sources.                       *)
(*                                                                         *)
(* A relation of schema (key: u64, val: u64) with primary key [0] is       *)
(* stored; by PrimaryKey::hash the hash of such a tuple is the key itself. *)
(***************************************************************************)
EXTENDS Integers, Sequences, FiniteSets, TLC

(* ------------------------------ bounds --------------------------------- *)
\* keys (and so primary-key hashes) range over 0..MaxKey
MaxKey == 5
\* bucket capacities tried: 1..MaxCap
MaxCap == 2
\* number of public calls (insert, scan) made in one behaviour
MaxOps == 4

Keys == 0..MaxKey
\* the non-key column is a revision bit
Vals == {0, 1}
Tuples == {<<k, v>> : k \in Keys, v \in Vals}

(* ------------------------- integer bit operations ---------------------- *)
RECURSIVE BitAnd(_, _)
BitAnd(a, b) ==
    IF a = 0 \/ b = 0 THEN 0
    ELSE 2 * BitAnd(a \div 2, b \div 2) + (IF a % 2 = 1 /\ b % 2 = 1 THEN 1 ELSE 0)

RECURSIVE BitOr(_, _)
BitOr(a, b) ==
    IF a = 0 THEN b
    ELSE IF b = 0 THEN a
    ELSE 2 * BitOr(a \div 2, b \div 2) + (IF a % 2 = 1 \/ b % 2 = 1 THEN 1 ELSE 0)

RECURSIVE Shl(_, _)
Shl(a, n) == IF n = 0 THEN a ELSE Shl(2 * a, n - 1)

RECURSIVE BitLen(_)
BitLen(n) == IF n = 0 THEN 0 ELSE 1 + BitLen(n \div 2)

\* Directory depth past which no further doubling can separate two hashes of
\* 0..MaxKey: an insert that still asks for a doubling there recurses forever
\* in the program (the directory doubles until memory is exhausted).
DepthLimit == BitLen(MaxKey) + 1

\* Option<T> and Result<T, E>: None (or Err) is <<>>, Some(x) (or Ok(x)) is <<x>>
None == <<>>
Some(x) == <<x>>

(* --------------------------- the line codec ---------------------------- *)
DigitChars == <<"0", "1", "2", "3", "4", "5", "6", "7", "8", "9">>

IsDigit(c) == \E i \in 1..10 : DigitChars[i] = c
DigitVal(c) == (CHOOSE i \in 1..10 : DigitChars[i] = c) - 1

\* Display of an unsigned integer: base-10 text
RECURSIVE to_string(_)
to_string(n) ==
    IF n < 10 THEN <<DigitChars[n + 1]>>
    ELSE to_string(n \div 10) \o <<DigitChars[(n % 10) + 1]>>

ParseFailure == -1

\* str::parse::<u64>: a non-empty string of decimal digits, else an error
RECURSIVE parse_digits(_, _)
parse_digits(s, acc) ==
    IF s = <<>> THEN acc
    ELSE IF ~IsDigit(Head(s)) THEN ParseFailure
    ELSE parse_digits(Tail(s), 10 * acc + DigitVal(Head(s)))

parse_unsigned(s) == IF s = <<>> THEN ParseFailure ELSE parse_digits(s, 0)

RECURSIVE join(_)
join(strs) ==
    IF strs = <<>> THEN <<>>
    ELSE IF Len(strs) = 1 THEN strs[1]
    ELSE strs[1] \o <<"|">> \o join(Tail(strs))

\* serialize_values for numeric columns: to_string of each, joined by '|'
serialize_values(values) == join([i \in 1..Len(values) |-> to_string(values[i])])

\* the character loop of parse_using_types_helper: st = [current, vec, in_quote, err]
RECURSIVE split_fields(_, _)
split_fields(s, st) ==
    IF s = <<>> THEN st
    ELSE LET c == Head(s) IN
         IF c = "\"" THEN split_fields(Tail(s), [st EXCEPT !.in_quote = ~st.in_quote])
         ELSE IF c = "\\" THEN
              IF Tail(s) = <<>> THEN [st EXCEPT !.err = TRUE]
              ELSE split_fields(Tail(Tail(s)), [st EXCEPT !.current = st.current \o <<Head(Tail(s))>>])
         ELSE IF c = "|" /\ ~st.in_quote THEN
              split_fields(Tail(s), [st EXCEPT !.current = <<>>, !.vec = Append(st.vec, st.current)])
         ELSE split_fields(Tail(s), [st EXCEPT !.current = st.current \o <<c>>])

IsBlank(s) == \A i \in 1..Len(s) : s[i] = " "

\* parse_using_types_helper against a schema of `arity` unsigned columns:
\* Ok(the parsed tuple), or Err(ParseTupleFailure) as None.  The loop pairs
\* types with strings and its (type_iter.next(), string_iter.next()) takes
\* one more item from the longer list when the shorter runs out, so the
\* closing test fails only when the lengths differ by two or more.
parse_using_types(to_parse, arity) ==
    LET paired(strings_vector) ==
            IF Len(strings_vector) < arity THEN Len(strings_vector) ELSE arity
        typed(strings_vector) ==
            IF \E i \in 1..paired(strings_vector) :
                  parse_unsigned(strings_vector[i]) = ParseFailure
            THEN None
            ELSE IF Len(strings_vector) > arity + 1 \/ arity > Len(strings_vector) + 1
            THEN None
            ELSE Some([i \in 1..paired(strings_vector) |-> parse_unsigned(strings_vector[i])])
        collected(st) ==
            IF st.err THEN None
            ELSE typed(IF ~IsBlank(st.current) THEN Append(st.vec, st.current) ELSE st.vec)
    IN  collected(split_fields(to_parse,
            [current |-> <<>>, vec |-> <<>>, in_quote |-> FALSE, err |-> FALSE]))

Arity == 2

\* PrimaryKey::hash for the key definition [0] over an unsigned column
hash_tuple(tuple) == tuple[1]

(* ----------------- the codec over all kinds of values ----------------- *)
\* a Type value: kind "u64" (Unsigned::Long, in n), "bool" (in n, 1 for
\* true), "str" (Text::String with no maximum length, in s) or "char"
\* (Text::Char, the one character of s)
Value(kind, n, s) == [kind |-> kind, n |-> n, s |-> s]

TrueChars == <<"t", "r", "u", "e">>
FalseChars == <<"f", "a", "l", "s", "e">>

\* the closure of serialize_values: text in double quotes, the rest by Display
serialize_type(v) ==
    CASE v.kind \in {"str", "char"} -> <<"\"">> \o v.s \o <<"\"">>
      [] v.kind = "bool" -> IF v.n = 1 THEN TrueChars ELSE FalseChars
      [] OTHER -> to_string(v.n)

\* serialize_values for values of any kind
serialize_values_of(values) == join([i \in 1..Len(values) |-> serialize_type(values[i])])

\* the match of parse_using_types_helper for one column: Some(value) or None
parse_type(base_type, string) ==
    CASE base_type = "u64" ->
             IF parse_unsigned(string) = ParseFailure THEN None
             ELSE Some(Value("u64", parse_unsigned(string), <<>>))
      [] base_type = "bool" ->
             IF string = TrueChars THEN Some(Value("bool", 1, <<>>))
             ELSE IF string = FalseChars THEN Some(Value("bool", 0, <<>>))
             ELSE None
      [] base_type = "char" ->
             IF Len(string) = 1 THEN Some(Value("char", 0, string)) ELSE None
      [] OTHER -> Some(Value("str", 0, string))

\* parse_using_types_helper: Ok(values) as Some(values), Err as None
parse_using_types_helper(to_parse, iterator) ==
    LET paired(strings_vector) ==
            IF Len(strings_vector) < Len(iterator) THEN Len(strings_vector) ELSE Len(iterator)
        typed(strings_vector) ==
            IF \E i \in 1..paired(strings_vector) :
                  parse_type(iterator[i], strings_vector[i]) = None
            THEN None
            ELSE IF Len(strings_vector) > Len(iterator) + 1
                    \/ Len(iterator) > Len(strings_vector) + 1
            THEN None
            ELSE Some([i \in 1..paired(strings_vector) |->
                          parse_type(iterator[i], strings_vector[i])[1]])
        collected(st) ==
            IF st.err THEN None
            ELSE typed(IF ~IsBlank(st.current) THEN Append(st.vec, st.current) ELSE st.vec)
    IN  collected(split_fields(to_parse,
            [current |-> <<>>, vec |-> <<>>, in_quote |-> FALSE, err |-> FALSE]))

(* ------------------------------- Block --------------------------------- *)
ROLLING_AVERAGE_COUNT == 100
MIN_TIME_FOR_MAINTAIN_LOAD == 500

\* Block::new for a file-backed block; initialize_file leaves the file empty
\* (the relation's directory holds no older file of that number).
\* access_info.average stands for rolling_average(): "none" while no interval
\* is recorded, else whether it is above ("high") or not above ("low")
\* MIN_TIME_FOR_MAINTAIN_LOAD.
Block_new(block_num) ==
    [block_num      |-> block_num,
     block_contents |-> None,
     len            |-> 0,
     file           |-> <<>>,
     reads          |-> 0,
     load_block     |-> FALSE,
     access_info    |-> [last_access |-> FALSE, average |-> "none"]]

load_status(b) == b.block_contents # None

\* AccessInformation::add_access; `slow` is the clock's input: whether the
\* rolling average including the interval just recorded exceeds the threshold
add_access(ai, slow) ==
    IF ~ai.last_access THEN [ai EXCEPT !.last_access = TRUE]
    ELSE [ai EXCEPT !.average = IF slow THEN "high" ELSE "low"]

notify_access(b, slow) == [b EXCEPT !.access_info = add_access(b.access_info, slow)]

should_unload(ai) ==
    CASE ai.average = "none" -> TRUE
      [] ai.average = "high" -> TRUE
      [] OTHER -> FALSE

\* one line of the block file: "<hash>:<serialized tuple>"
file_line(entry) == to_string(entry[1]) \o <<":">> \o serialize_values(entry[2])

\* str::splitn(2, ":")
RECURSIVE before_colon(_)
before_colon(s) ==
    IF s = <<>> \/ Head(s) = ":" THEN <<>> ELSE <<Head(s)>> \o before_colon(Tail(s))

RECURSIVE after_colon(_)
after_colon(s) ==
    IF s = <<>> THEN <<>> ELSE IF Head(s) = ":" THEN Tail(s) ELSE after_colon(Tail(s))

has_colon(s) == \E i \in 1..Len(s) : s[i] = ":"

\* Some(the entry a line of the file loads as), or None where load panics
parse_line(str) ==
    LET entry(hash, tuple) ==
            IF ~has_colon(str) \/ hash = ParseFailure \/ tuple = None
            THEN None
            ELSE Some(<<hash, tuple[1]>>)
    IN  entry(parse_unsigned(before_colon(str)), parse_using_types(after_colon(str), Arity))

load_panics(b) == \E i \in 1..Len(b.file) : parse_line(b.file[i]) = None

\* Block::load, for a file whose lines all parse
load(b) ==
    [b EXCEPT !.block_contents = Some([i \in 1..Len(b.file) |-> parse_line(b.file[i])[1]]),
              !.len = Len(b.file)]

\* Block::unload: rewrite the file from the in-memory vector, drop the vector
unload(b) ==
    IF b.block_contents = None THEN b
    ELSE LET internal == b.block_contents[1] IN
         [b EXCEPT !.block_contents = None,
                   !.file = [i \in 1..Len(internal) |-> file_line(internal[i])]]

\* Block::notify_finish with `reads` outstanding read guards
notify_finish(b, reads) ==
    IF reads = 0 /\ load_status(b) /\ should_unload(b.access_info) THEN unload(b) ELSE b

\* Block::try_get_contents_mut up to the creation of the guard
get_contents_mut(b, slow) ==
    LET b1 == notify_access(b, slow) IN
    IF ~load_status(b1) THEN load(b1) ELSE b1

\* BlockContents::insert_tuple on the vector: [internal, ret]
BlockContents_insert_tuple(internal, hash, tuple) ==
    IF \E i \in 1..Len(internal) : internal[i][1] = hash
    THEN LET pos == CHOOSE i \in 1..Len(internal) :
                        /\ internal[i][1] = hash
                        /\ \A j \in 1..(i - 1) : internal[j][1] # hash
         IN  [internal |-> [internal EXCEPT ![pos] = <<hash, tuple>>],
              ret      |-> Some(internal[pos][2])]
    ELSE [internal |-> Append(internal, <<hash, tuple>>), ret |-> None]

\* insert_tuple that forgets to count the new entry
insert_tuple_len_not_counted(b, hash, tuple) ==
    LET r == BlockContents_insert_tuple(b.block_contents[1], hash, tuple) IN
    [block |-> [b EXCEPT !.block_contents = Some(r.internal)],
     ret   |-> r.ret]

\* InUseMut::insert_tuple on a loaded block: [block, ret]
insert_tuple(b, hash, tuple) ==
    LET r == BlockContents_insert_tuple(b.block_contents[1], hash, tuple) IN
    [block |-> [b EXCEPT !.block_contents = Some(r.internal),
                         !.len = IF r.ret = None THEN b.len + 1 ELSE b.len],
     ret   |-> r.ret]

\* take_all that leaves the length as it was
take_all_len_kept(b) ==
    LET internal == b.block_contents[1] IN
    [block  |-> [b EXCEPT !.block_contents = Some(<<>>)],
     tuples |-> [i \in 1..Len(internal) |-> internal[i][2]]]

\* InUseMut::take_all on a loaded block: [block, tuples]
take_all(b) ==
    LET internal == b.block_contents[1] IN
    [block  |-> [b EXCEPT !.block_contents = Some(<<>>), !.len = 0],
     tuples |-> [i \in 1..Len(internal) |-> internal[i][2]]]

\* BlockContents::remove_tuple on the vector: [internal, ret]
BlockContents_remove_tuple(internal, hash) ==
    IF \E i \in 1..Len(internal) : internal[i][1] = hash
    THEN LET pos == CHOOSE i \in 1..Len(internal) :
                        /\ internal[i][1] = hash
                        /\ \A j \in 1..(i - 1) : internal[j][1] # hash
         IN  [internal |-> SubSeq(internal, 1, pos - 1) \o SubSeq(internal, pos + 1, Len(internal)),
              ret      |-> Some(internal[pos][2])]
    ELSE [internal |-> internal, ret |-> None]

\* InUseMut::remove_tuple on a loaded block: [block, ret]
remove_tuple(b, hash) ==
    LET r == BlockContents_remove_tuple(b.block_contents[1], hash) IN
    [block |-> [b EXCEPT !.block_contents = Some(r.internal),
                         !.len = IF r.ret # None THEN b.len - 1 ELSE b.len],
     ret   |-> r.ret]

\* Block::initialize_file: a file that exists is left as it is, else an
\* empty one is created.  on_disk is None or Some(the lines of the file)
initialize_file(b, on_disk) ==
    [b EXCEPT !.file = IF on_disk = None THEN <<>> ELSE on_disk[1]]

\* Block::new where the relation's directory may hold a file of that number
Block_new_over(block_num, on_disk) == initialize_file(Block_new(block_num), on_disk)

\* Drop for InUseMut
drop_InUseMut(b) == notify_finish(b, 0)

(* --------------------------- BlockDirectory ---------------------------- *)
\* fn mask(depth)
RECURSIVE mask(_)
mask(depth) == IF depth = 0 THEN 0 ELSE BitOr(Shl(mask(depth - 1), 1), 1)

\* BlockDirectory::generate_mask, as the value stored in self.mask
RECURSIVE generate_mask(_)
generate_mask(global_depth) ==
    IF global_depth = 0 THEN 0 ELSE BitOr(Shl(generate_mask(global_depth - 1), 1), 1)

\* BlockDirectory::new.  `fault` records how the calling thread died, if it
\* did: "panic" (an unwrap/expect/panic!) or "exhausted" (unbounded recursion).
BlockDirectory_new(bucket_size) ==
    [bucket_size  |-> bucket_size,
     global_depth |-> 1,
     directories  |-> << >>,
     buckets      |-> << >>,
     mask         |-> 1,
     fault        |-> "none"]

\* buckets are indexed from 0 in the program
Bkt(D, index) == D.buckets[index + 1]
SetBlock(D, index, b) == [D EXCEPT !.buckets[index + 1].block = b]
bucket_count(D) == Len(D.buckets)

get_directory(D, hash) == BitAnd(hash, D.mask)

get_bucket_num(D, directory) ==
    IF directory \in DOMAIN D.directories THEN Some(D.directories[directory]) ELSE None

\* BlockDirectory::create_new_bucket; the new id is the old bucket count
create_new_bucket(D, local_depth) ==
    [D EXCEPT !.buckets = Append(D.buckets,
        [local_depth |-> local_depth,
         block       |-> Block_new(Len(D.buckets)),
         mask        |-> mask(local_depth)])]

\* expand_directory that does not regenerate the mask
expand_directory_stale_mask(D) ==
    LET old  == D.directories
        high == Shl(1, D.global_depth)
        keys == DOMAIN old \cup {BitOr(key, high) : key \in DOMAIN old}
        new_hash_map == [k \in keys |->
            old[CHOOSE key \in DOMAIN old : k = key \/ k = BitOr(key, high)]]
    IN  [D EXCEPT !.directories = new_hash_map,
                  !.global_depth = D.global_depth + 1]

\* BlockDirectory::expand_directory
expand_directory(D) ==
    LET old  == D.directories
        high == Shl(1, D.global_depth)
        keys == DOMAIN old \cup {BitOr(key, high) : key \in DOMAIN old}
        new_hash_map == [k \in keys |->
            old[CHOOSE key \in DOMAIN old : k = key \/ k = BitOr(key, high)]]
    IN  [D EXCEPT !.directories = new_hash_map,
                  !.global_depth = D.global_depth + 1,
                  !.mask = generate_mask(D.global_depth + 1)]

\* get_contents_mut() of bucket `index`; a line that does not parse panics
open_bucket_mut(D, index, slow) ==
    LET b == Bkt(D, index).block IN
    IF D.fault # "none" THEN D
    ELSE IF ~load_status(b) /\ load_panics(b) THEN [D EXCEPT !.fault = "panic"]
    ELSE SetBlock(D, index, get_contents_mut(b, slow))

close_bucket_mut(D, index) ==
    IF D.fault # "none" THEN D
    ELSE SetBlock(D, index, drop_InUseMut(Bkt(D, index).block))

\* split_bucket, lines 204-212: double the directory when the bucket is at
\* the global depth
split_expand(D, bucket_index) ==
    IF Bkt(D, bucket_index).local_depth = D.global_depth
    THEN expand_directory(D) ELSE D

\* split_bucket, lines 213-221: deepen the bucket and drain it.
\* [dir, tuples, local_depth]
split_drain(D, bucket_index, slow) ==
    LET drained(D2, local_depth) ==
            IF D2.fault # "none"
            THEN [dir |-> D2, tuples |-> <<>>, local_depth |-> local_depth]
            ELSE LET t == take_all(Bkt(D2, bucket_index).block) IN
                 [dir         |-> close_bucket_mut(SetBlock(D2, bucket_index, t.block), bucket_index),
                  tuples      |-> t.tuples,
                  local_depth |-> local_depth]
        deepened(D1) ==
            drained(open_bucket_mut(D1, bucket_index, slow), Bkt(D1, bucket_index).local_depth)
    IN  deepened([D EXCEPT !.buckets[bucket_index + 1].local_depth = @ + 1])

\* split_remap whose deciding bit is shifted one place too far
split_remap_shift_off_by_one(D, bucket_index, new_block_index, local_depth, directory_number) ==
    LET small_mask == mask(local_depth - 1)
        original_real_check == BitAnd(small_mask, directory_number)
        higher_directory_check == BitOr(original_real_check, Shl(1, local_depth))
        local_mask == mask(local_depth)
    IN  [D EXCEPT !.directories = [key \in DOMAIN D.directories |->
            IF BitAnd(key, local_mask) = higher_directory_check
               /\ D.directories[key] = bucket_index
            THEN new_block_index
            ELSE D.directories[key]]]

\* split_remap that does not test which bucket a key maps to
split_remap_of_any_bucket(D, bucket_index, new_block_index, local_depth, directory_number) ==
    LET small_mask == mask(local_depth - 1)
        original_real_check == BitAnd(small_mask, directory_number)
        higher_directory_check == BitOr(original_real_check, Shl(1, local_depth - 1))
        local_mask == mask(local_depth)
    IN  [D EXCEPT !.directories = [key \in DOMAIN D.directories |->
            IF BitAnd(key, local_mask) = higher_directory_check
            THEN new_block_index
            ELSE D.directories[key]]]

\* split_bucket, lines 225-254: hand the upper half of the bucket's
\* directory keys to the new bucket
split_remap(D, bucket_index, new_block_index, local_depth, directory_number) ==
    LET small_mask == mask(local_depth - 1)
        original_real_check == BitAnd(small_mask, directory_number)
        higher_directory_check == BitOr(original_real_check, Shl(1, local_depth - 1))
        local_mask == mask(local_depth)
    IN  [D EXCEPT !.directories = [key \in DOMAIN D.directories |->
            IF BitAnd(key, local_mask) = higher_directory_check
               /\ D.directories[key] = bucket_index
            THEN new_block_index
            ELSE D.directories[key]]]

\* split_bucket, lines 258-277, one iteration of the loop
split_reinsert_one(D, tuple, slow) ==
    LET hash == hash_tuple(tuple)
        written(D1, index) ==
            IF D1.fault # "none" THEN D1
            ELSE close_bucket_mut(
                    SetBlock(D1, index, insert_tuple(Bkt(D1, index).block, hash, tuple).block),
                    index)
        found(bucket_from_dir) ==
            IF bucket_from_dir = None THEN [D EXCEPT !.fault = "panic"]
            ELSE written(open_bucket_mut(D, bucket_from_dir[1], slow), bucket_from_dir[1])
    IN  IF D.fault # "none" THEN D
        ELSE found(get_bucket_num(D, get_directory(D, hash)))

RECURSIVE split_reinsert(_, _, _)
split_reinsert(D, tuples, slow) ==
    IF tuples = <<>> THEN D
    ELSE split_reinsert(split_reinsert_one(D, Head(tuples), slow), Tail(tuples), slow)

\* BlockDirectory::split_bucket
split_bucket(D, bucket_index, directory_number, slow) ==
    LET drained(dr) ==
            IF dr.dir.fault # "none" THEN dr.dir
            ELSE split_reinsert(
                    split_remap(create_new_bucket(dr.dir, dr.local_depth), bucket_index,
                                bucket_count(dr.dir), dr.local_depth, directory_number),
                    dr.tuples, slow)
    IN  drained(split_drain(split_expand(D, bucket_index), bucket_index, slow))

\* BlockDirectory::get_bucket_from_directory(_mut): the bucket registered
\* for the directory key, created with local depth 1 when there is none
get_bucket_from_directory(D, directory) ==
    IF get_bucket_num(D, directory) # None THEN D
    ELSE LET new_bucket == bucket_count(D)
             D1 == create_new_bucket(D, 1)
         IN  [D1 EXCEPT !.directories =
                [key \in DOMAIN D.directories \cup {directory} |->
                    IF key = directory THEN new_bucket ELSE D.directories[key]]]

\* the split of insert's overflow branch would double a directory that is
\* already DepthLimit deep
split_exhausts(D, bucket_num) ==
    Bkt(D, bucket_num).local_depth = D.global_depth /\ D.global_depth >= DepthLimit

\* BlockDirectory::insert: [dir, ret]
RECURSIVE insert(_, _, _, _)
insert(D, tuple, full_hash, slow) ==
    LET finished(D3, bucket_num, ret) ==
            IF ret = None /\ Bkt(D3, bucket_num).block.len > D3.bucket_size
            THEN [dir |-> [D3 EXCEPT !.fault = "panic"], ret |-> None]
            ELSE [dir |-> D3, ret |-> ret]
        written(D2, bucket_num, r) ==
            finished(close_bucket_mut(SetBlock(D2, bucket_num, r.block), bucket_num),
                     bucket_num, r.ret)
        easy(D2, bucket_num) ==
            IF D2.fault # "none" THEN [dir |-> D2, ret |-> None]
            ELSE written(D2, bucket_num,
                         insert_tuple(Bkt(D2, bucket_num).block, full_hash, tuple))
        at(D1, directory_number, bucket_num) ==
            IF Bkt(D1, bucket_num).block.len = D1.bucket_size
            THEN \* Overflow!
                 IF split_exhausts(D1, bucket_num)
                 THEN [dir |-> [D1 EXCEPT !.fault = "exhausted"], ret |-> None]
                 ELSE insert(split_bucket(D1, bucket_num, directory_number, slow),
                             tuple, full_hash, slow)
            ELSE \* easy insert
                 easy(open_bucket_mut(D1, bucket_num, slow), bucket_num)
        found(D1, directory_number) ==
            at(D1, directory_number, get_bucket_num(D1, directory_number)[1])
    IN  IF D.fault # "none" THEN [dir |-> D, ret |-> None]
        ELSE found(get_bucket_from_directory(D, get_directory(D, full_hash)),
                   get_directory(D, full_hash))

\* BlockDirectory::len
len(D) ==
    LET RECURSIVE sum(_)
        sum(i) == IF i = 0 THEN 0 ELSE sum(i - 1) + D.buckets[i].block.len
    IN  sum(Len(D.buckets))

\* Block::try_get_contents up to the creation of the guard
get_contents(b, slow) ==
    LET b1 == notify_access([b EXCEPT !.reads = @ + 1], slow) IN
    IF ~load_status(b1) THEN load(b1) ELSE b1

\* Drop for InUse
drop_InUse(b) ==
    LET b1 == [b EXCEPT !.reads = @ - 1] IN notify_finish(b1, b1.reads)

\* StoredTupleIterator run to exhaustion from bucket `bucket_num`, with the
\* tuples buffered so far: [dir, out]
RECURSIVE StoredTupleIterator_collect(_, _, _, _, _)
StoredTupleIterator_collect(D, bucket_num, max_block_num, buffer, slow) ==
    LET b == Bkt(D, bucket_num).block
        buffered(contents) ==
            StoredTupleIterator_collect(
                SetBlock(D, bucket_num, drop_InUse(contents)),
                bucket_num + 1, max_block_num,
                buffer \o [i \in 1..Len(contents.block_contents[1]) |->
                              contents.block_contents[1][i][2]],
                slow)
    IN  IF bucket_num >= max_block_num \/ D.fault # "none" THEN [dir |-> D, out |-> buffer]
        ELSE IF ~load_status(b) /\ load_panics(b)
        THEN [dir |-> [D EXCEPT !.fault = "panic"], out |-> buffer]
        ELSE buffered(get_contents(b, slow))

\* TupleStorage::all_tuples collected: [dir, out]
all_tuples(D, slow) == StoredTupleIterator_collect(D, 0, bucket_count(D), <<>>, slow)

(* ------------------- what the store holds, for the claims -------------- *)
\* the entries of a block: in memory when resident, in its file when not
block_entries(b) ==
    LET kept(e) == IF e = None THEN <<ParseFailure, <<>>>> ELSE e[1] IN
    IF load_status(b) THEN b.block_contents[1]
    ELSE [i \in 1..Len(b.file) |-> kept(parse_line(b.file[i]))]

\* the set of (bucket index, position) places holding an entry
Places(D) ==
    UNION {{<<i, j>> : j \in 1..Len(block_entries(Bkt(D, i).block))} :
              i \in 0..(Len(D.buckets) - 1)}
EntryAt(D, pl) == block_entries(Bkt(D, pl[1]).block)[pl[2]]

\* the tuple stored under a hash, if any
stored(D, hash) ==
    LET found(hits) ==
            IF hits = {} THEN None ELSE Some(EntryAt(D, CHOOSE pl \in hits : TRUE)[2])
    IN  found({pl \in Places(D) : EntryAt(D, pl)[1] = hash})

(* ------------------------------ the store ------------------------------ *)
VARIABLES
    directory,  \* the BlockDirectory of the relation's TupleStorage
    inserted,   \* history: hash -> the tuple last inserted under it
    distinct,   \* history: no insert so far repeated a hash
    last,       \* history: the last public call, its pre-state and its result
    ops         \* number of public calls made

storeVars == <<directory, inserted, distinct, last, ops>>

VARIABLES
    bucket_lock, \* BlockDirectory.bucket_lock: [write, read]
    writer,      \* the thread that owns the directory, inside insert
    reader       \* a thread running a full scan (StoredTupleIterator)

lockVars == <<bucket_lock, writer, reader>>

VARIABLES
    blk,         \* one file-backed Block shared by reader threads
    file_gone,   \* its file is removed and not yet re-created (inside unload)
    access_lock, \* number of read guards on the block's access_info RwLock
    thr          \* per thread: position in try_get_contents / Drop for InUse

blockVars == <<blk, file_gone, access_lock, thr>>

VARIABLE
    temp         \* the relation as a TempRelation: its name, the directories
                 \* under DB_STORAGE, and how far its life has come

vars == <<storeVars, lockVars, blockVars, temp>>

\* Lock::default
Lock_new == [write |-> FALSE, read |-> 0]
\* try_read that does not look at the write flag
can_read_while_written(lock) == TRUE
\* Lock::try_read / try_write succeed
can_read(lock) == ~lock.write
\* try_write that does not look at the read count
can_write_ignoring_readers(lock) == ~lock.write
can_write(lock) == lock.read = 0 /\ ~lock.write

WriterIdle == [pc |-> "idle", tuple |-> <<>>, slow |-> FALSE, bucket_index |-> 0,
               directory_number |-> 0, tuples |-> <<>>, new_block_index |-> 0,
               local_depth |-> 0]
ReaderIdle == [pc |-> "idle", bucket_num |-> 0, max_block_num |-> 0,
               buffer |-> <<>>, slow |-> FALSE, scans |-> 0]

LockInit ==
    /\ bucket_lock = Lock_new
    /\ writer = WriterIdle
    /\ reader = ReaderIdle

\* number of threads that read the shared block
NThreads == 2
Threads == 1..NThreads

ThreadIdle == [pc |-> "idle", tuples |-> <<>>, replaced |-> None,
               view |-> "none", seen |-> "none"]

\* the shared block: bucket 0 of a relation after its first insert (the
\* first guard drop finds no recorded interval, so the block is unloaded)
FirstInsert ==
    drop_InUseMut(insert_tuple(get_contents_mut(Block_new(0), FALSE), 0, <<0, 0>>).block)

BlockInit ==
    /\ blk = FirstInsert
    /\ file_gone = FALSE
    /\ access_lock = 0
    /\ thr = [t \in Threads |-> ThreadIdle]

NoCall == [op |-> "none", tuple |-> <<>>, before |-> None, len_before |-> 0,
           count_before |-> 0, ret |-> None, out |-> <<>>]

\* Relation::new(Identifier::new("test"), ..) on an empty DB_STORAGE: no
\* bucket yet, so no directory yet
TempInit ==
    temp = [phase |-> "plain", name |-> <<"test">>, renamed_at |-> 0, dirs |-> {},
            files |-> {}, mixed |-> FALSE]

\* a relation just created, with one of the bucket sizes
StoreInit(bucket_sizes) ==
    /\ \E bucket_size \in bucket_sizes : directory = BlockDirectory_new(bucket_size)
    /\ inserted = << >>
    /\ distinct = TRUE
    /\ last = NoCall
    /\ ops = 0

Init == StoreInit(1..MaxCap) /\ LockInit /\ TempInit /\ BlockInit

\* the tuple a caller writes under a key: revision 0 for a key it has not
\* written yet, the flipped revision when it overwrites one
next_tuple(key) ==
    IF key \in DOMAIN inserted THEN <<key, 1 - inserted[key][2]>> ELSE <<key, 0>>

\* TupleStorage::insert
Insert(key, slow) ==
    LET tuple == next_tuple(key)
        hash  == hash_tuple(tuple)
        returned(r) ==
            /\ directory' = r.dir
            /\ last' = [NoCall EXCEPT !.op = "insert", !.tuple = tuple,
                            !.before = stored(directory, hash),
                            !.len_before = len(directory),
                            !.count_before = bucket_count(directory),
                            !.ret = r.ret]
    IN  /\ ops < MaxOps
        /\ directory.fault = "none"
        /\ returned(insert(directory, tuple, hash, slow))
        /\ inserted' = [h \in DOMAIN inserted \cup {hash} |->
                           IF h = hash THEN tuple ELSE inserted[h]]
        /\ distinct' = (distinct /\ hash \notin DOMAIN inserted)
        /\ ops' = ops + 1
        /\ UNCHANGED <<lockVars, temp, blockVars, temp>>

\* Relation::tuples, iterated to its end
Scan(slow) ==
    LET returned(r) ==
            /\ directory' = r.dir
            /\ last' = [NoCall EXCEPT !.op = "scan", !.len_before = len(directory),
                            !.count_before = bucket_count(directory), !.out = r.out]
    IN  /\ ops < MaxOps
        /\ directory.fault = "none"
        /\ returned(all_tuples(directory, slow))
        /\ ops' = ops + 1
        /\ UNCHANGED <<inserted, distinct>>
        /\ UNCHANGED <<lockVars, temp, blockVars, temp>>

Next ==
    \/ \E key \in Keys, slow \in BOOLEAN : Insert(key, slow)
    \/ \E slow \in BOOLEAN : Scan(slow)

Spec == Init /\ [][Next]_vars

(* ------------------------- claims about the store ---------------------- *)
Pow2(n) == Shl(1, n)
BucketIds(D) == 0..(Len(D.buckets) - 1)
\* the hashes of the entries bucket `i` holds
BucketHashes(D, i) ==
    {block_entries(Bkt(D, i).block)[j][1] : j \in 1..Len(block_entries(Bkt(D, i).block))}
\* the directory keys registered for bucket `i`
KeysOf(D, i) == {key \in DOMAIN D.directories : D.directories[key] = i}
Occurrences(seq, x) == Cardinality({i \in 1..Len(seq) : seq[i] = x})

\* C1: after inserts of pairwise distinct hashes, splits and doublings
\* included, no call has failed and a full scan, taken in any state and
\* whatever the clock, yields every inserted tuple exactly once and nothing
\* else, and len() equals the number of tuples it yields, before and after it.
C1_ScanYieldsInsertedOnce ==
    distinct =>
        /\ directory.fault = "none"
        /\ \A slow \in BOOLEAN :
              LET r == all_tuples(directory, slow) IN
              /\ r.dir.fault = "none"
              /\ \A h \in DOMAIN inserted : Occurrences(r.out, inserted[h]) = 1
              /\ Len(r.out) = Cardinality(DOMAIN inserted)
              /\ len(directory) = Len(r.out)
              /\ len(r.dir) = Len(r.out)
        /\ last.op = "scan" =>
              /\ \A h \in DOMAIN inserted : Occurrences(last.out, inserted[h]) = 1
              /\ Len(last.out) = Cardinality(DOMAIN inserted)
              /\ len(directory) = Len(last.out)

\* a scan was made of a store whose inserts split a bucket and doubled the
\* directory
C1_Witness ==
    /\ distinct
    /\ last.op = "scan"
    /\ Len(last.out) >= 3
    /\ directory.global_depth >= 2
    /\ bucket_count(directory) >= 3

\* C2 (as claimed): every insert returns; under a stored hash it returns the
\* stored tuple, leaves the new one in its place and keeps len(); under a
\* new hash it returns nothing and len() grows by exactly 1.
C2_InsertReplacesOrAppends ==
    last.op = "insert" =>
        /\ directory.fault = "none"
        /\ stored(directory, hash_tuple(last.tuple)) = Some(last.tuple)
        /\ IF last.before # None
           THEN last.ret = last.before /\ len(directory) = last.len_before
           ELSE last.ret = None /\ len(directory) = last.len_before + 1

\* C3: after every insert call that returns, every bucket's len() and the
\* number of entries it holds are at most the bucket capacity.
C3_BucketWithinCapacity ==
    (last.op = "insert" /\ directory.fault = "none") =>
        \A i \in BucketIds(directory) :
            /\ Bkt(directory, i).block.len <= directory.bucket_size
            /\ Len(block_entries(Bkt(directory, i).block)) <= directory.bucket_size

\* an insert returned after splitting a bucket, and left a bucket full
C3_Witness ==
    /\ last.op = "insert"
    /\ directory.fault = "none"
    /\ bucket_count(directory) > last.count_before + 1
    /\ \E i \in BucketIds(directory) :
          Bkt(directory, i).block.len = directory.bucket_size

\* C4: after every insert (and where an insert that never returns stands
\* between two of its splits), the tuples of a bucket of local depth d agree
\* on hash & (2^d - 1), that value is the low d bits of every directory key
\* of the bucket, and every tuple is in the bucket the directory maps
\* hash & mask to.
C4_BucketPrefix ==
    \A i \in BucketIds(directory) :
        LET d == Bkt(directory, i).local_depth IN
        /\ \A h1, h2 \in BucketHashes(directory, i) :
              BitAnd(h1, Pow2(d) - 1) = BitAnd(h2, Pow2(d) - 1)
        /\ \A h \in BucketHashes(directory, i) :
              /\ \A key \in KeysOf(directory, i) :
                    BitAnd(h, Pow2(d) - 1) = BitAnd(key, Pow2(d) - 1)
              /\ get_bucket_num(directory, get_directory(directory, h)) = Some(i)

\* an insert split a bucket and left tuples in both halves
C4_Witness ==
    /\ last.op = "insert"
    /\ directory.fault = "none"
    /\ \E i, j \in BucketIds(directory) :
          /\ i # j
          /\ Bkt(directory, i).local_depth >= 2
          /\ Bkt(directory, j).local_depth >= 2
          /\ BucketHashes(directory, i) # {}
          /\ BucketHashes(directory, j) # {}

\* C5 (as claimed): once a key is registered, the directory holds
\* 2^global_depth keys.
C5_DirectoryCovering ==
    (directory.fault = "none" /\ DOMAIN directory.directories # {}) =>
        Cardinality(DOMAIN directory.directories) = Pow2(directory.global_depth)

\* C6 (as claimed): a registered key that agrees with a key of bucket B on
\* the low local_depth(B) bits maps to B as well.
C6_PrefixOwnership ==
    directory.fault = "none" =>
        \A i \in BucketIds(directory) :
            \A k1 \in KeysOf(directory, i) :
                \A k2 \in DOMAIN directory.directories :
                    BitAnd(k2, Pow2(Bkt(directory, i).local_depth) - 1)
                        = BitAnd(k1, Pow2(Bkt(directory, i).local_depth) - 1)
                    => directory.directories[k2] = i

\* C7: every bucket's local depth is at least 1 and at most the global
\* depth, and the directory's mask is 2^global_depth - 1.
C7_DepthsAndMask ==
    /\ \A i \in BucketIds(directory) :
          /\ Bkt(directory, i).local_depth >= 1
          /\ Bkt(directory, i).local_depth <= directory.global_depth
    /\ directory.mask = Pow2(directory.global_depth) - 1

\* the directory was doubled, and holds a bucket below the global depth and
\* one at it
C7_Witness ==
    /\ directory.global_depth >= 2
    /\ \E i \in BucketIds(directory) :
          Bkt(directory, i).local_depth < directory.global_depth
    /\ \E i \in BucketIds(directory) :
          Bkt(directory, i).local_depth = directory.global_depth

\* the program never dies of a panic in these runs, and recurses without
\* end only when a bucket of capacity 1 is asked to replace its tuple
FaultOnlyOnFullReplace ==
    /\ directory.fault # "panic"
    /\ directory.fault = "exhausted" =>
          (last.op = "insert" /\ last.before # None /\ directory.bucket_size = 1)

(* ------------- the directory lock: insert against a full scan ---------- *)
\* Bounds of the interleaved runs
MaxInserts == 2
MaxScans == 1

RegisterInsert(tuple) ==
    /\ inserted' = [h \in DOMAIN inserted \cup {hash_tuple(tuple)} |->
                       IF h = hash_tuple(tuple) THEN tuple ELSE inserted[h]]
    /\ distinct' = (distinct /\ hash_tuple(tuple) \notin DOMAIN inserted)

\* insert, lines 335-349: find or create the bucket and test it for overflow.
\* buckets() takes the read lock; create_new_bucket takes the write lock.
W_Begin(key, slow) ==
    /\ writer.pc = "idle"
    /\ ops < MaxInserts
    /\ directory.fault = "none"
    /\ LET tuple == next_tuple(key)
           directory_number == get_directory(directory, hash_tuple(tuple))
           D1 == get_bucket_from_directory(directory, directory_number)
           bucket_num == get_bucket_num(D1, directory_number)[1]
       IN  /\ IF get_bucket_num(directory, directory_number) = None
              THEN can_write(bucket_lock) ELSE can_read(bucket_lock)
           /\ directory' = D1
           /\ writer' = [WriterIdle EXCEPT
                  !.pc = IF Bkt(D1, bucket_num).block.len = D1.bucket_size
                         THEN "overflow" ELSE "easy",
                  !.tuple = tuple, !.slow = slow,
                  !.bucket_index = bucket_num,
                  !.directory_number = directory_number]
           /\ RegisterInsert(tuple)
    /\ ops' = ops + 1
    /\ UNCHANGED <<last, bucket_lock, reader>>
    /\ UNCHANGED <<blockVars, temp>>

\* insert re-invoked after a split (line 344), on the same tuple
W_Again ==
    /\ writer.pc = "again"
    /\ LET directory_number == get_directory(directory, hash_tuple(writer.tuple))
           D1 == get_bucket_from_directory(directory, directory_number)
           bucket_num == get_bucket_num(D1, directory_number)[1]
       IN  /\ IF get_bucket_num(directory, directory_number) = None
              THEN can_write(bucket_lock) ELSE can_read(bucket_lock)
           /\ directory' = D1
           /\ writer' = [writer EXCEPT
                  !.pc = IF Bkt(D1, bucket_num).block.len = D1.bucket_size
                         THEN "overflow" ELSE "easy",
                  !.bucket_index = bucket_num,
                  !.directory_number = directory_number]
    /\ UNCHANGED <<inserted, distinct, last, ops, bucket_lock, reader>>
    /\ UNCHANGED <<blockVars, temp>>

\* insert, line 347: get_bucket_from_directory_mut takes the write lock and
\* gives it back before it returns the bucket
W_EasyLock ==
    /\ writer.pc = "easy"
    /\ can_write(bucket_lock)
    /\ writer' = [writer EXCEPT !.pc = "easy_write"]
    /\ UNCHANGED <<storeVars, bucket_lock, reader>>
    /\ UNCHANGED <<blockVars, temp>>

\* insert, lines 353-366: write the tuple into the bucket's block
W_EasyWrite ==
    /\ writer.pc = "easy_write"
    /\ LET D2 == open_bucket_mut(directory, writer.bucket_index, writer.slow)
           r  == insert_tuple(Bkt(D2, writer.bucket_index).block,
                              hash_tuple(writer.tuple), writer.tuple)
       IN  directory' = IF D2.fault # "none" THEN D2
                        ELSE close_bucket_mut(SetBlock(D2, writer.bucket_index, r.block),
                                              writer.bucket_index)
    /\ writer' = WriterIdle
    /\ UNCHANGED <<inserted, distinct, last, ops, bucket_lock, reader>>
    /\ UNCHANGED <<blockVars, temp>>

\* split_bucket, lines 204-212: read the depths under the read lock, double
\* the directory when needed
W_SplitExpand ==
    /\ writer.pc = "overflow"
    /\ can_read(bucket_lock)
    /\ IF split_exhausts(directory, writer.bucket_index)
       THEN /\ directory' = [directory EXCEPT !.fault = "exhausted"]
            /\ writer' = [writer EXCEPT !.pc = "dead"]
       ELSE /\ directory' = split_expand(directory, writer.bucket_index)
            /\ writer' = [writer EXCEPT !.pc = "s_lock1"]
    /\ UNCHANGED <<inserted, distinct, last, ops, bucket_lock, reader>>
    /\ UNCHANGED <<blockVars, temp>>

\* split_bucket, line 213: buckets_mut() takes the write lock
W_SplitLock1 ==
    /\ writer.pc = "s_lock1"
    /\ can_write(bucket_lock)
    /\ bucket_lock' = [bucket_lock EXCEPT !.write = TRUE]
    /\ writer' = [writer EXCEPT !.pc = "s_drain"]
    /\ UNCHANGED <<storeVars, reader>>
    /\ UNCHANGED <<blockVars, temp>>

\* split_bucket, lines 214-220: deepen the bucket and take its tuples
W_SplitDrain ==
    /\ writer.pc = "s_drain"
    /\ LET dr == split_drain(directory, writer.bucket_index, writer.slow) IN
       /\ directory' = dr.dir
       /\ writer' = [writer EXCEPT !.pc = "s_unlock1", !.tuples = dr.tuples,
                                   !.local_depth = dr.local_depth]
    /\ UNCHANGED <<inserted, distinct, last, ops, bucket_lock, reader>>
    /\ UNCHANGED <<blockVars, temp>>

\* split_bucket, line 221: std::mem::drop(lock)
W_SplitUnlock1 ==
    /\ writer.pc = "s_unlock1"
    /\ bucket_lock' = [bucket_lock EXCEPT !.write = FALSE]
    /\ writer' = [writer EXCEPT !.pc = "s_new"]
    /\ UNCHANGED <<storeVars, reader>>
    /\ UNCHANGED <<blockVars, temp>>

\* split_bucket, line 222: create_new_bucket takes and returns the write lock
W_SplitNewBucket ==
    /\ writer.pc = "s_new"
    /\ can_write(bucket_lock)
    /\ directory' = create_new_bucket(directory, writer.local_depth)
    /\ writer' = [writer EXCEPT !.pc = "s_remap",
                                !.new_block_index = bucket_count(directory)]
    /\ UNCHANGED <<inserted, distinct, last, ops, bucket_lock, reader>>
    /\ UNCHANGED <<blockVars, temp>>

\* split_bucket, lines 225-254: rewrite the directory entries
W_SplitRemap ==
    /\ writer.pc = "s_remap"
    /\ directory' = split_remap(directory, writer.bucket_index, writer.new_block_index,
                                writer.local_depth, writer.directory_number)
    /\ writer' = [writer EXCEPT !.pc = "s_lock2"]
    /\ UNCHANGED <<inserted, distinct, last, ops, bucket_lock, reader>>
    /\ UNCHANGED <<blockVars, temp>>

\* split_bucket, line 256: buckets_mut() takes the write lock again
W_SplitLock2 ==
    /\ writer.pc = "s_lock2"
    /\ can_write(bucket_lock)
    /\ bucket_lock' = [bucket_lock EXCEPT !.write = TRUE]
    /\ writer' = [writer EXCEPT !.pc = "s_reinsert"]
    /\ UNCHANGED <<storeVars, reader>>
    /\ UNCHANGED <<blockVars, temp>>

\* split_bucket, lines 258-277: one turn of the re-insertion loop
W_SplitReinsert ==
    /\ writer.pc = "s_reinsert"
    /\ writer.tuples # <<>>
    /\ directory' = split_reinsert_one(directory, Head(writer.tuples), writer.slow)
    /\ writer' = [writer EXCEPT !.tuples = Tail(writer.tuples)]
    /\ UNCHANGED <<inserted, distinct, last, ops, bucket_lock, reader>>
    /\ UNCHANGED <<blockVars, temp>>

\* split_bucket, line 279: the write guard goes out of scope
W_SplitUnlock2 ==
    /\ writer.pc = "s_reinsert"
    /\ writer.tuples = <<>>
    /\ bucket_lock' = [bucket_lock EXCEPT !.write = FALSE]
    /\ writer' = [writer EXCEPT !.pc = "again"]
    /\ UNCHANGED <<storeVars, reader>>
    /\ UNCHANGED <<blockVars, temp>>

\* StoredTupleIterator::new: take the read lock, capture the bucket count
R_New(slow) ==
    /\ reader.pc = "idle"
    /\ reader.scans < MaxScans
    /\ can_read(bucket_lock)
    /\ bucket_lock' = [bucket_lock EXCEPT !.read = @ + 1]
    /\ reader' = [ReaderIdle EXCEPT !.pc = "iter", !.slow = slow,
                                    !.scans = reader.scans + 1,
                                    !.max_block_num = bucket_count(directory)]
    /\ UNCHANGED <<storeVars, writer>>
    /\ UNCHANGED <<blockVars, temp>>

\* StoredTupleIterator::next, lines 432-439: buffer the next bucket's tuples
R_Next ==
    /\ reader.pc = "iter"
    /\ reader.bucket_num < reader.max_block_num
    /\ LET r == StoredTupleIterator_collect(directory, reader.bucket_num,
                    reader.bucket_num + 1, reader.buffer, reader.slow)
       IN  /\ directory' = r.dir
           /\ reader' = [reader EXCEPT !.bucket_num = @ + 1, !.buffer = r.out]
    /\ UNCHANGED <<inserted, distinct, last, ops, bucket_lock, writer>>
    /\ UNCHANGED <<blockVars, temp>>

\* the iterator is exhausted and dropped: its LockRead is released
R_Drop ==
    /\ reader.pc = "iter"
    /\ reader.bucket_num >= reader.max_block_num
    /\ bucket_lock' = [bucket_lock EXCEPT !.read = @ - 1]
    /\ reader' = [reader EXCEPT !.pc = "idle"]
    /\ UNCHANGED <<storeVars, writer>>
    /\ UNCHANGED <<blockVars, temp>>

NextSplit ==
    \/ \E key \in Keys, slow \in BOOLEAN : W_Begin(key, slow)
    \/ W_Again
    \/ W_EasyLock
    \/ W_EasyWrite
    \/ W_SplitExpand
    \/ W_SplitLock1
    \/ W_SplitDrain
    \/ W_SplitUnlock1
    \/ W_SplitNewBucket
    \/ W_SplitRemap
    \/ W_SplitLock2
    \/ W_SplitReinsert
    \/ W_SplitUnlock2
    \/ \E slow \in BOOLEAN : R_New(slow)
    \/ R_Next
    \/ R_Drop

SpecSplit == Init /\ [][NextSplit]_vars

\* the split has taken the bucket's tuples and not yet put all of them back
SplitInFlight ==
    /\ writer.pc \in {"s_unlock1", "s_new", "s_remap", "s_lock2", "s_reinsert"}
    /\ writer.tuples # <<>>

\* C8 (as claimed): from the drain to the last re-insertion split_bucket
\* holds the directory write lock, so no reader holds the read lock while
\* drained tuples are in no bucket.
C8_SplitHoldsWriteLock ==
    SplitInFlight => (bucket_lock.write /\ bucket_lock.read = 0)

\* C11: while a StoredTupleIterator exists it holds a read guard, the write
\* lock is not held, and the bucket count it captured at creation is the
\* length of the bucket vector.
C11_IteratorFreezesBuckets ==
    reader.pc = "iter" =>
        /\ bucket_lock.read >= 1
        /\ ~bucket_lock.write
        /\ reader.max_block_num = bucket_count(directory)

\* an iterator over a non-empty store exists while the writer, in the middle
\* of a split, is waiting for the write lock to add the new bucket
C11_Witness ==
    /\ reader.pc = "iter"
    /\ reader.max_block_num >= 1
    /\ writer.pc = "s_new"

(* ---------------- one block shared by reader threads ------------------- *)
SetThr(t, r) == thr' = [thr EXCEPT ![t] = r]
\* a write of block_contents by thread t leaves dangling every reference the
\* other threads took through their guards
Invalidate(t, r) ==
    thr' = [u \in Threads |->
              IF u = t THEN r
              ELSE IF thr[u].view = "valid" THEN [thr[u] EXCEPT !.view = "dangling"]
              ELSE thr[u]]
BlockFrame == UNCHANGED <<storeVars, lockVars, temp>>

\* try_get_contents, line 163: self.usage.read()
T_UsageRead(t) ==
    /\ thr[t].pc = "idle"
    /\ SetThr(t, [thr[t] EXCEPT !.pc = "g_reads"])
    /\ UNCHANGED <<blk, file_gone, access_lock>> /\ BlockFrame

\* try_get_contents, line 164: self.reads.fetch_add(1)
T_ReadsInc(t) ==
    /\ thr[t].pc = "g_reads"
    /\ blk' = [blk EXCEPT !.reads = @ + 1]
    /\ SetThr(t, [thr[t] EXCEPT !.pc = "g_access"])
    /\ UNCHANGED <<file_gone, access_lock>> /\ BlockFrame

\* try_get_contents, line 165: notify_access under access_info.write()
T_NotifyAccess(t, slow) ==
    /\ thr[t].pc = "g_access"
    /\ access_lock = 0
    /\ blk' = notify_access(blk, slow)
    /\ SetThr(t, [thr[t] EXCEPT !.pc = "g_status"])
    /\ UNCHANGED <<file_gone, access_lock>> /\ BlockFrame

\* try_get_contents, lines 166-175: load when not resident, then the guard
T_LoadStatus(t) ==
    /\ thr[t].pc = "g_status"
    /\ SetThr(t, [thr[t] EXCEPT !.pc = IF load_status(blk) THEN "holding" ELSE "l_spin"])
    /\ UNCHANGED <<blk, file_gone, access_lock>> /\ BlockFrame

\* load, line 234: while self.load_block.load() {}
T_LoadSpin(t) ==
    /\ thr[t].pc = "l_spin"
    /\ ~blk.load_block
    /\ SetThr(t, [thr[t] EXCEPT !.pc = "l_read"])
    /\ UNCHANGED <<blk, file_gone, access_lock>> /\ BlockFrame

\* load, lines 238-270: open the file and parse its lines; a missing file
\* or a line that does not parse panics
T_LoadRead(t) ==
    /\ thr[t].pc = "l_read"
    /\ IF file_gone \/ load_panics(blk)
       THEN SetThr(t, [thr[t] EXCEPT !.pc = "panicked"])
       ELSE SetThr(t, [thr[t] EXCEPT !.pc = "l_install",
                                     !.tuples = load(blk).block_contents[1]])
    /\ UNCHANGED <<blk, file_gone, access_lock>> /\ BlockFrame

\* load, lines 272-281: install the contents and the length
T_LoadInstall(t) ==
    /\ thr[t].pc = "l_install"
    /\ blk' = [blk EXCEPT !.block_contents = Some(thr[t].tuples),
                          !.len = Len(thr[t].tuples)]
    /\ Invalidate(t, [thr[t] EXCEPT !.pc = "holding", !.tuples = <<>>])
    /\ UNCHANGED <<file_gone, access_lock>> /\ BlockFrame

\* Deref for InUse, lines 402-409: load if the contents are gone, then a
\* reference to the contents
T_Deref(t) ==
    /\ thr[t].pc = "holding"
    /\ thr[t].view = "none"
    /\ SetThr(t, IF load_status(blk) THEN [thr[t] EXCEPT !.view = "valid"]
                 ELSE [thr[t] EXCEPT !.pc = "l_spin"])
    /\ UNCHANGED <<blk, file_gone, access_lock>> /\ BlockFrame

\* the holder reads the tuples through its reference (contents.all()); a
\* read through a dangling reference may yield anything
T_Use(t) ==
    /\ thr[t].pc = "holding"
    /\ thr[t].view # "none"
    /\ thr[t].seen = "none"
    /\ \E outcome \in (IF thr[t].view = "dangling" THEN {"contents", "garbage"}
                       ELSE {"contents"}) :
          SetThr(t, [thr[t] EXCEPT !.seen = outcome])
    /\ UNCHANGED <<blk, file_gone, access_lock>> /\ BlockFrame

\* Drop for InUse, line 414: self.parent.reads.fetch_sub(1)
T_Drop(t) ==
    /\ thr[t].pc = "holding"
    /\ blk' = [blk EXCEPT !.reads = @ - 1]
    /\ SetThr(t, [thr[t] EXCEPT !.pc = "f_lock", !.view = "none", !.seen = "none"])
    /\ UNCHANGED <<file_gone, access_lock>> /\ BlockFrame

\* notify_finish, line 221: self.access_info.read()
T_FinishLock(t) ==
    /\ thr[t].pc = "f_lock"
    /\ access_lock' = access_lock + 1
    /\ SetThr(t, [thr[t] EXCEPT !.pc = "f_reads"])
    /\ UNCHANGED <<blk, file_gone>> /\ BlockFrame

\* notify_finish, line 222: self.reads.load() == 0
T_FinishReads(t) ==
    /\ thr[t].pc = "f_reads"
    /\ SetThr(t, [thr[t] EXCEPT !.pc = IF blk.reads = 0 THEN "f_status" ELSE "f_unlock"])
    /\ UNCHANGED <<blk, file_gone, access_lock>> /\ BlockFrame

\* notify_finish, lines 223-224: self.load_status() && should_unload()
T_FinishStatus(t) ==
    /\ thr[t].pc = "f_status"
    /\ SetThr(t, [thr[t] EXCEPT !.pc =
          IF load_status(blk) /\ should_unload(blk.access_info) THEN "u_cas" ELSE "f_unlock"])
    /\ UNCHANGED <<blk, file_gone, access_lock>> /\ BlockFrame

\* unload, lines 291-294: spin on load_block.compare_and_swap(false, true)
T_UnloadCas(t) ==
    /\ thr[t].pc = "u_cas"
    /\ ~blk.load_block
    /\ blk' = [blk EXCEPT !.load_block = TRUE]
    /\ SetThr(t, [thr[t] EXCEPT !.pc = "u_take"])
    /\ UNCHANGED <<file_gone, access_lock>> /\ BlockFrame

\* unload, lines 295-296: take the contents out of the block; when there
\* are none the function ends with load_block still set
T_UnloadTake(t) ==
    /\ thr[t].pc = "u_take"
    /\ blk' = [blk EXCEPT !.block_contents = None]
    /\ Invalidate(t, IF blk.block_contents = None
                     THEN [thr[t] EXCEPT !.pc = "f_unlock"]
                     ELSE [thr[t] EXCEPT !.pc = "u_remove", !.replaced = blk.block_contents])
    /\ UNCHANGED <<file_gone, access_lock>> /\ BlockFrame

\* unload, line 303: std::fs::remove_file
T_UnloadRemove(t) ==
    /\ thr[t].pc = "u_remove"
    /\ file_gone' = TRUE
    /\ SetThr(t, [thr[t] EXCEPT !.pc = "u_write"])
    /\ UNCHANGED <<blk, access_lock>> /\ BlockFrame

\* unload, lines 305-321: re-create the file and write the entries
T_UnloadWrite(t) ==
    /\ thr[t].pc = "u_write"
    /\ file_gone' = FALSE
    /\ blk' = [blk EXCEPT !.file =
          [i \in 1..Len(thr[t].replaced[1]) |-> file_line(thr[t].replaced[1][i])]]
    /\ SetThr(t, [thr[t] EXCEPT !.pc = "u_flag", !.replaced = None])
    /\ UNCHANGED access_lock /\ BlockFrame

\* unload, line 322: self.load_block.store(false)
T_UnloadFlag(t) ==
    /\ thr[t].pc = "u_flag"
    /\ blk' = [blk EXCEPT !.load_block = FALSE]
    /\ SetThr(t, [thr[t] EXCEPT !.pc = "f_unlock"])
    /\ UNCHANGED <<file_gone, access_lock>> /\ BlockFrame

\* notify_finish returns: the access_info guard and then the usage guard
\* of the InUse are released
T_FinishUnlock(t) ==
    /\ thr[t].pc = "f_unlock"
    /\ access_lock' = access_lock - 1
    /\ SetThr(t, [thr[t] EXCEPT !.pc = "idle"])
    /\ UNCHANGED <<blk, file_gone>> /\ BlockFrame

NextBlock ==
    \E t \in Threads :
        \/ T_UsageRead(t)
        \/ T_ReadsInc(t)
        \/ \E slow \in BOOLEAN : T_NotifyAccess(t, slow)
        \/ T_LoadStatus(t)
        \/ T_LoadSpin(t)
        \/ T_LoadRead(t)
        \/ T_LoadInstall(t)
        \/ T_Deref(t)
        \/ T_Use(t)
        \/ T_Drop(t)
        \/ T_FinishLock(t)
        \/ T_FinishReads(t)
        \/ T_FinishStatus(t)
        \/ T_UnloadCas(t)
        \/ T_UnloadTake(t)
        \/ T_UnloadRemove(t)
        \/ T_UnloadWrite(t)
        \/ T_UnloadFlag(t)
        \/ T_FinishUnlock(t)

InitBlock == StoreInit({1}) /\ LockInit /\ TempInit /\ BlockInit

SpecBlock == InitBlock /\ [][NextBlock]_vars

\* C9 (as claimed): while a thread holds a read guard the block's contents
\* are in memory, and what it reads through the guard is the block's
\* contents.
C9_GuardKeepsContents ==
    \A t \in Threads :
        thr[t].pc = "holding" =>
            /\ load_status(blk)
            /\ thr[t].view # "dangling"
            /\ thr[t].seen # "garbage"

\* C10 (as claimed): at most one thread at a time is between the opening of
\* the block file and the installation of the contents.
C10_SingleLoader ==
    Cardinality({t \in Threads : thr[t].pc \in {"l_read", "l_install"}}) <= 1

(* --------- one block over the file its relation finds on disk ---------- *)
\* number of accesses made to the block in one behaviour
MaxFileOps == 3

\* what a new block 0 can find under DB_STORAGE/<relation>/block_0.txt: no
\* file, or the file an earlier relation of the same name left when it was
\* dropped (Drop for Block unloads): empty, one or two tuples of this
\* schema, one tuple of a one-column schema, or one tuple of a schema
\* whose second column is a string
OnDisk ==
    {None,
     Some(<<>>),
     Some(<<file_line(<<0, <<0, 0>>>>)>>),
     Some(<<file_line(<<0, <<0, 0>>>>), file_line(<<1, <<1, 1>>>>)>>),
     Some(<<file_line(<<0, <<0>>>>)>>),
     Some(<<to_string(0) \o <<":">>
              \o serialize_values_of(<<Value("u64", 0, <<>>), Value("str", 0, <<"a">>)>>)>>)}

InitFile ==
    /\ StoreInit({1})
    /\ LockInit
    /\ TempInit
    /\ \E on_disk \in OnDisk : blk = Block_new_over(0, on_disk)
    /\ file_gone = FALSE
    /\ access_lock = 0
    /\ thr = [t \in Threads |-> ThreadIdle]

\* the part of every access: count it, note what it was, leave the rest
FileFrame(op) ==
    /\ ops < MaxFileOps
    /\ directory.fault = "none"
    /\ ops' = ops + 1
    /\ last' = [NoCall EXCEPT !.op = op]
    /\ UNCHANGED <<inserted, distinct, lockVars, temp, file_gone, access_lock, thr>>

\* get_contents_mut() on a block whose file does not load: the access is
\* noted and load panics
F_LoadPanics(b, slow) ==
    /\ blk' = notify_access(b, slow)
    /\ directory' = [directory EXCEPT !.fault = "panic"]

\* get_contents_mut().insert_tuple(hash, tuple), then the guard is dropped
F_Insert(hash, val, slow) ==
    /\ FileFrame("insert")
    /\ IF ~load_status(blk) /\ load_panics(blk)
       THEN F_LoadPanics(blk, slow)
       ELSE /\ blk' = drop_InUseMut(
                         insert_tuple(get_contents_mut(blk, slow), hash, <<hash, val>>).block)
            /\ UNCHANGED directory

\* get_contents_mut().remove_tuple(hash), then the guard is dropped
F_Remove(hash, slow) ==
    /\ FileFrame("remove")
    /\ IF ~load_status(blk) /\ load_panics(blk)
       THEN F_LoadPanics(blk, slow)
       ELSE /\ blk' = drop_InUseMut(remove_tuple(get_contents_mut(blk, slow), hash).block)
            /\ UNCHANGED directory

\* get_contents_mut().take_all(), then the guard is dropped
F_TakeAll(slow) ==
    /\ FileFrame("take_all")
    /\ IF ~load_status(blk) /\ load_panics(blk)
       THEN F_LoadPanics(blk, slow)
       ELSE /\ blk' = drop_InUseMut(take_all(get_contents_mut(blk, slow)).block)
            /\ UNCHANGED directory

\* get_contents(), then the guard is dropped
F_Read(slow) ==
    /\ FileFrame("read")
    /\ IF ~load_status(blk) /\ load_panics(blk)
       THEN /\ blk' = notify_access([blk EXCEPT !.reads = @ + 1], slow)
            /\ directory' = [directory EXCEPT !.fault = "panic"]
       ELSE /\ blk' = drop_InUse(get_contents(blk, slow))
            /\ UNCHANGED directory

NextFile ==
    \/ \E hash \in 0..1, val \in Vals, slow \in BOOLEAN : F_Insert(hash, val, slow)
    \/ \E hash \in 0..1, slow \in BOOLEAN : F_Remove(hash, slow)
    \/ \E slow \in BOOLEAN : F_TakeAll(slow)
    \/ \E slow \in BOOLEAN : F_Read(slow)

SpecFile == InitFile /\ [][NextFile]_vars

\* C12 (as claimed): Block::len() is the number of entries the block holds,
\* in memory when resident and in its file when not, from its creation on.
C12_LenCountsEntries ==
    blk.len = Len(block_entries(blk))

\* C14 (as claimed): after a guard is dropped with no read guard left, the
\* block is unloaded exactly when the rolling average of its recorded
\* intervals is above MIN_TIME_FOR_MAINTAIN_LOAD; with no interval recorded
\* it stays resident.
C14_UnloadIffSlowAverage ==
    (last.op # "none" /\ directory.fault = "none") =>
        (~load_status(blk) <=> blk.access_info.average = "high")

\* C16 (as claimed): an access that has to load a file with a line that
\* does not deserialize hands an error to its caller; the thread is not
\* aborted.
C16_LoadFailureIsReturned ==
    last.op \in {"insert", "remove", "take_all", "read"} => directory.fault # "panic"

(* -------------------- the value codec, there and back ------------------ *)
\* longest string and longest row of values tried
MaxStr == 2
MaxRow == 2

\* the characters strings are made of: a letter, a space and the three
\* characters the line format gives a meaning to
Alphabet == {"a", " ", "\"", "\\", "|"}
Strings == UNION {[1..n -> Alphabet] : n \in 0..MaxStr}
Values ==
    {Value("u64", n, <<>>) : n \in {0, 7, 10}}
    \cup {Value("bool", n, <<>>) : n \in {0, 1}}
    \cup {Value("str", 0, str) : str \in Strings}
    \cup {Value("char", 0, <<c>>) : c \in Alphabet}
Rows == UNION {[1..n -> Values] : n \in 0..MaxRow}

InitCodec == StoreInit({1}) /\ LockInit /\ TempInit /\ BlockInit

CodecFrame == UNCHANGED <<directory, inserted, distinct, ops, lockVars, temp, blockVars, temp>>

\* serialize_values(values)
Codec_Serialize(values) ==
    /\ last.op = "none"
    /\ last' = [NoCall EXCEPT !.op = "serialized", !.tuple = values,
                              !.out = serialize_values_of(values)]
    /\ CodecFrame

\* parse_using_types(line, the types of the values serialized)
Codec_Parse ==
    /\ last.op = "serialized"
    /\ last' = [last EXCEPT !.op = "parsed",
                  !.ret = parse_using_types_helper(last.out,
                              [i \in 1..Len(last.tuple) |-> last.tuple[i].kind])]
    /\ CodecFrame

NextCodec ==
    \/ \E values \in Rows : Codec_Serialize(values)
    \/ Codec_Parse

SpecCodec == InitCodec /\ [][NextCodec]_vars

\* C19 (as claimed): parsing the serialized line against the types of the
\* values gives back the values.
C19_CodecRoundTrip ==
    last.op = "parsed" => last.ret = Some(last.tuple)

(* ------------- a block of text tuples, unloaded and loaded ------------- *)
\* number of entries of the block
MaxEntries == 2

\* the schema of the relation: an unsigned key and a string
RoundTypes == <<"u64", "str">>

\* "<hash>:<serialized tuple>" for a tuple of values of any kind
file_line_of(entry) == to_string(entry[1]) \o <<":">> \o serialize_values_of(entry[2])

\* the entry a line loads as under the schema, or None where load panics
parse_line_of(str, types) ==
    LET entry(hash, tuple) ==
            IF ~has_colon(str) \/ hash = ParseFailure \/ tuple = None
            THEN None
            ELSE Some(<<hash, tuple[1]>>)
    IN  entry(parse_unsigned(before_colon(str)),
              parse_using_types_helper(after_colon(str), types))

\* Block::unload of a resident block of such tuples
unload_of(b) ==
    [b EXCEPT !.block_contents = None,
              !.file = [i \in 1..Len(b.block_contents[1]) |->
                           file_line_of(b.block_contents[1][i])]]

load_of_panics(b, types) ==
    \E i \in 1..Len(b.file) : parse_line_of(b.file[i], types) = None

\* Block::load under the schema, for a file whose lines all parse
load_of(b, types) ==
    [b EXCEPT !.block_contents =
                  Some([i \in 1..Len(b.file) |-> parse_line_of(b.file[i], types)[1]]),
              !.len = Len(b.file)]

\* the tuple of key `hash` whose string is `str`
TextTuple(hash, str) == <<Value("u64", hash, <<>>), Value("str", 0, str)>>

\* resident contents: up to MaxEntries entries of keys 0, 1, ... in order
Contents ==
    UNION {{[i \in 1..n |-> <<i - 1, TextTuple(i - 1, strs[i])>>] : strs \in [1..n -> Strings]}
           : n \in 0..MaxEntries}

InitRound ==
    /\ StoreInit({1})
    /\ LockInit
    /\ TempInit
    /\ \E internal \in Contents :
          blk = [Block_new(0) EXCEPT !.block_contents = Some(internal),
                                     !.len = Len(internal)]
    /\ file_gone = FALSE
    /\ access_lock = 0
    /\ thr = [t \in Threads |-> ThreadIdle]

RoundFrame ==
    UNCHANGED <<inserted, distinct, ops, lockVars, temp, file_gone, access_lock, thr>>

\* the resident block is unloaded
Round_Unload ==
    /\ last.op = "none"
    /\ blk' = unload_of(blk)
    /\ last' = [NoCall EXCEPT !.op = "unloaded", !.before = blk.block_contents,
                              !.len_before = blk.len]
    /\ UNCHANGED directory
    /\ RoundFrame

\* the unloaded block is loaded again
Round_Load ==
    /\ last.op = "unloaded"
    /\ IF load_of_panics(blk, RoundTypes)
       THEN /\ directory' = [directory EXCEPT !.fault = "panic"]
            /\ UNCHANGED blk
       ELSE /\ blk' = load_of(blk, RoundTypes)
            /\ UNCHANGED directory
    /\ last' = [last EXCEPT !.op = "reloaded"]
    /\ RoundFrame

NextRound ==
    \/ Round_Unload
    \/ Round_Load

SpecRound == InitRound /\ [][NextRound]_vars

\* C13 (as claimed): a resident block that is unloaded and loaded again
\* holds the same entries in the same order, and has the same len().
C13_UnloadLoadRoundTrip ==
    last.op = "reloaded" =>
        /\ directory.fault = "none"
        /\ blk.block_contents = last.before
        /\ blk.len = last.len_before

(* ------------------------ primary keys compared ------------------------ *)
\* longest primary key compared
MaxKeyLen == 2

\* SameType for Type: the same variant (every Text::String here has no
\* maximum length, so the lengths compared for strings are equal)
Type_same_type(mine, theirs) == mine.kind = theirs.kind

\* SameType for Vec<&Type>
same_type(self, other) ==
    IF Len(self) # Len(other) THEN FALSE
    ELSE \A i \in 1..Len(self) : Type_same_type(self[i], other[i])

\* PartialEq for PrimaryKey: both iterators walk self
PrimaryKey_eq(self, other) ==
    LET self_iter == self
        other_iter == self
    IN  IF ~same_type(self, other) THEN FALSE
        ELSE ~\E i \in 1..Len(self_iter) : self_iter[i] # other_iter[i]

\* the attribute values keys are made of
KeyValues ==
    {Value("u64", n, <<>>) : n \in {0, 1}}
    \cup {Value("bool", n, <<>>) : n \in {0, 1}}
    \cup {Value("str", 0, str) : str \in {<<>>, <<"a">>}}
PrimaryKeys == UNION {[1..n -> KeyValues] : n \in 0..MaxKeyLen}

InitKey == StoreInit({1}) /\ LockInit /\ TempInit /\ BlockInit

\* self == other for two primary keys
Key_Compare(self, other) ==
    /\ last.op = "none"
    /\ last' = [NoCall EXCEPT !.op = "compared", !.tuple = self, !.out = other,
                              !.ret = Some(PrimaryKey_eq(self, other))]
    /\ UNCHANGED <<directory, inserted, distinct, ops, lockVars, temp, blockVars, temp>>

NextKey == \E self \in PrimaryKeys, other \in PrimaryKeys : Key_Compare(self, other)

SpecKey == InitKey /\ [][NextKey]_vars

\* C18 (as claimed): two primary keys compare equal exactly when they have
\* the same length, the same variant at every position and equal values.
C18_KeyEqualityByValue ==
    last.op = "compared" => (last.ret = Some(TRUE) <=> last.tuple = last.out)


(* ------------------ tuples of any shape offered to insert --------------- *)
\* number of inserts made
MaxTypedOps == 2

\* get_primary_key_of_tuple for the key definition [0]: the values at the
\* positions of the definition that the tuple has
get_primary_key_of_tuple(tuple) == IF Len(tuple) >= 1 THEN <<tuple[1]>> ELSE <<>>

\* PrimaryKey::hash over unsigned values: the value itself for a key of one
\* column, and 0 for a key of no column (the loop runs over nothing)
PrimaryKey_hash(primary_key) == IF Len(primary_key) = 1 THEN primary_key[1] ELSE 0

\* TupleStorage::insert: [dir, result], result <<"Ok", replaced>>
TupleStorage_insert(D, tuple, slow) ==
    LET result(r) == [dir |-> r.dir, result |-> <<"Ok", r.ret>>]
    IN  result(insert(D, tuple, PrimaryKey_hash(get_primary_key_of_tuple(tuple)), slow))

\* tuples of unsigned values with too few, the right number of, and too many
\* columns for the relation
OfferedTuples == UNION {[1..n -> 0..2] : n \in 0..(Arity + 1)}

\* the tuple has the columns of the relation definition
well_typed(tuple) == Len(tuple) = Arity

InitTyped == StoreInit(1..MaxCap) /\ LockInit /\ TempInit /\ BlockInit

\* TupleStorage::insert of any offered tuple
Typed_Insert(tuple, slow) ==
    LET returned(r) ==
            /\ directory' = r.dir
            /\ last' = [NoCall EXCEPT !.op = "insert", !.tuple = tuple,
                            !.len_before = len(directory),
                            !.count_before = bucket_count(directory),
                            !.ret = r.result]
    IN  /\ ops < MaxTypedOps
        /\ directory.fault = "none"
        /\ returned(TupleStorage_insert(directory, tuple, slow))
        /\ ops' = ops + 1
        /\ UNCHANGED <<inserted, distinct, lockVars, temp, blockVars, temp>>

NextTyped == \E tuple \in OfferedTuples, slow \in BOOLEAN : Typed_Insert(tuple, slow)

SpecTyped == InitTyped /\ [][NextTyped]_vars

\* C15 (as claimed): an insert of a tuple that does not have the columns of
\* the relation is answered with the IncorrectTypes error and leaves the
\* number of stored tuples as it was.
C15_IllTypedInsertRejected ==
    (last.op = "insert" /\ ~well_typed(last.tuple)) =>
        /\ last.ret[1] = "IncorrectTypes"
        /\ len(directory) = last.len_before


(* --------------------- the optimizer, as constructed -------------------- *)
\* Identifier: a base name under an optional parent name
Identifier(parent, base) == [parent |-> parent, base |-> base]

\* the relations of the queries: name and attribute names
RelationR == [name |-> "r", attributes |-> <<"x", "y">>]
RelationS == [name |-> "s", attributes |-> <<"y", "z">>]

\* Relation::get_field_index: Some(position) or None
Relation_get_field_index(relation, identifier) ==
    IF identifier.parent # None /\ identifier.parent[1] # relation.name THEN None
    ELSE IF \E i \in 1..Len(relation.attributes) : relation.attributes[i] = identifier.base
    THEN Some((CHOOSE i \in 1..Len(relation.attributes) :
                  /\ relation.attributes[i] = identifier.base
                  /\ \A j \in 1..(i - 1) : relation.attributes[j] # identifier.base) - 1)
    ELSE None

\* MappedRelation::new and alias_relation: no field aliases
MappedRelation(relation, aliased_self) == [relation |-> relation, aliased_self |-> aliased_self]

\* MappedRelation::valid_name for a name without a parent
valid_name(source, name) ==
    \/ name = source.relation.name
    \/ source.aliased_self # None /\ name = source.aliased_self[1]

\* MappedRelation::get_mapped_field
get_mapped_field(source, field) ==
    IF field.parent = None
    THEN IF Relation_get_field_index(source.relation, field) # None
         THEN Some(Identifier(Some(source.relation.name), field.base))
         ELSE None
    ELSE IF valid_name(source, field.parent[1])
            /\ Relation_get_field_index(source.relation, Identifier(None, field.base)) # None
         THEN Some(field)
         ELSE None

\* MappedRelation::contains_field
contains_field(source, field) == get_mapped_field(source, field) # None

\* query nodes: a source, a selection over one child, a cross product of two
SourceNode(source) ==
    [query |-> "Source", source |-> <<source>>, condition |-> <<>>, children |-> <<>>]
SelectionNode(condition, child) ==
    [query |-> "Selection", source |-> <<>>, condition |-> <<condition>>, children |-> <<child>>]
CrossProductNode(left, right) ==
    [query |-> "CrossProduct", source |-> <<>>, condition |-> <<>>, children |-> <<left, right>>]

\* Condition: base = operand, the operand an identifier or a number
Condition(base, operand) == [base |-> base, operand |-> operand]

\* Condition::relevant_fields: the identifiers the condition refers to
relevant_fields(condition) ==
    {condition.base} \cup (IF condition.operand.id = None THEN {} ELSE {condition.operand.id[1]})

\* find_all_selections
RECURSIVE find_all_selections(_)
find_all_selections(query) ==
    (IF query.query = "Selection" THEN {query.condition[1]} ELSE {})
    \cup UNION {find_all_selections(query.children[i]) : i \in 1..Len(query.children)}

\* QueryNode::find_node_with_field: Some(the source of the node found) or
\* None; two children that both find a node find different nodes
RECURSIVE find_node_with_field(_, _)
find_node_with_field(query, field) ==
    LET found(i) == find_node_with_field(query.children[i], field)
        finders == {i \in 1..Len(query.children) : found(i) # None}
    IN  IF query.query = "Source" /\ contains_field(query.source[1], field)
        THEN Some(query.source[1])
        ELSE IF Cardinality(finders) = 1 THEN found(CHOOSE i \in finders : TRUE)
        ELSE None

\* the sources of a tree
RECURSIVE sources_of(_)
sources_of(query) ==
    (IF query.query = "Source" THEN {query.source[1]} ELSE {})
    \cup UNION {sources_of(query.children[i]) : i \in 1..Len(query.children)}

\* sample_field: whether the relation has the field (the values drawn are
\* random and are left out)
sample_field(field, source) == Relation_get_field_index(source.relation, field) # None

\* Optimizer::new: <<"constructed", the fields sampled>>, or <<"panic", {}>>
\* where the expect on sample_field fails
Optimizer_new(query) ==
    LET all_relevant_fields == UNION {relevant_fields(c) : c \in find_all_selections(query)}
        resolved == {field \in all_relevant_fields : find_node_with_field(query, field) # None}
    IN  IF \E field \in resolved : ~sample_field(field, find_node_with_field(query, field)[1])
        THEN <<"panic", {}>>
        ELSE <<"constructed", resolved>>

\* the identifiers and operands of the conditions tried
Names == {"r", "s", "a", "t"}
Bases == {"x", "y", "z", "w"}
Identifiers == {Identifier(parent, base) : parent \in {None} \cup {Some(n) : n \in Names},
                                           base \in Bases}
Operands == {[id |-> None]} \cup {[id |-> Some(i)] : i \in Identifiers}
Conditions == {Condition(base, operand) : base \in Identifiers, operand \in Operands}

\* the trees under the selection tried
Subtrees ==
    {SourceNode(MappedRelation(RelationR, None)),
     SourceNode(MappedRelation(RelationR, Some("a"))),
     CrossProductNode(SourceNode(MappedRelation(RelationR, None)),
                      SourceNode(MappedRelation(RelationS, None)))}

InitQuery == StoreInit({1}) /\ LockInit /\ TempInit /\ BlockInit

\* Optimizer::new(query, samples) for a selection over a subtree
Query_Optimize(condition, child) ==
    /\ last.op = "none"
    /\ last' = [NoCall EXCEPT !.op = "optimizer", !.tuple = <<SelectionNode(condition, child)>>,
                              !.ret = Optimizer_new(SelectionNode(condition, child))]
    /\ UNCHANGED <<directory, inserted, distinct, ops, lockVars, temp, blockVars, temp>>

NextQuery == \E condition \in Conditions, child \in Subtrees : Query_Optimize(condition, child)

SpecQuery == InitQuery /\ [][NextQuery]_vars

\* the fields of the tree's selections that no source of the tree supplies
missing_fields(query) ==
    {field \in UNION {relevant_fields(c) : c \in find_all_selections(query)} :
        \A source \in sources_of(query) : ~contains_field(source, field)}

\* C17 (as claimed): constructing the optimizer for a tree with a selection
\* on a field that no source supplies reports a missing-field error naming
\* such a field.
C17_MissingFieldReported ==
    (last.op = "optimizer" /\ missing_fields(last.tuple[1]) # {}) =>
        /\ last.ret[1] = "MissingFieldError"
        /\ last.ret[2] \in missing_fields(last.tuple[1])


(* ---------------- a temporary relation, from new to drop ---------------- *)
\* number of inserts made into the relation
MaxTempOps == 3

\* the directories on the way to a path, DB_STORAGE itself (<<>>) included
Prefixes(path) == {SubSeq(path, 1, n) : n \in 0..Len(path)}

\* std::fs::create_dir_all and remove_dir_all over the set of directories
\* under DB_STORAGE, each a sequence of components
create_dir_all(dirs, path) == dirs \cup Prefixes(path)
remove_dir_all(dirs, path) == {d \in dirs : path \notin Prefixes(d)}

\* the path of an Identifier: its components, outermost first
PathBuf_from(name) == name

\* the directory of Block::file_name for a block of table `parent_table`
file_dir(parent_table) == parent_table

\* rename reaching every block of the directory
parent_table_of_renamed(t, index) == t.name

\* the parent_table of bucket `index`: the name the directory had when
\* create_new_bucket made the block (rename does not reach the blocks)
parent_table_of(t, index) == IF index < t.renamed_at THEN <<"test">> ELSE t.name

\* Drop for Block
Drop_Block(b) == IF load_status(b) THEN unload(b) ELSE b

\* the drop of the BlockDirectory: every block is dropped
Drop_BlockDirectory(D) ==
    [D EXCEPT !.buckets = [i \in 1..Len(D.buckets) |->
                              [D.buckets[i] EXCEPT !.block = Drop_Block(D.buckets[i].block)]]]

InitTemp == StoreInit(1..MaxCap) /\ LockInit /\ TempInit /\ BlockInit

\* Relation::insert; a bucket made by it gets its file, and the directories
\* on the way to it, under the name the relation has now
Temp_Insert(key, slow) ==
    LET returned(r) ==
            /\ directory' = r.dir
            /\ temp' = IF bucket_count(r.dir) > bucket_count(directory)
                       THEN [temp EXCEPT !.dirs = create_dir_all(@, file_dir(temp.name))]
                       ELSE temp
    IN  /\ temp.phase \in {"plain", "temp"}
        /\ ops < MaxTempOps
        /\ directory.fault = "none"
        /\ returned(insert(directory, <<key, 0>>, hash_tuple(<<key, 0>>), slow))
        /\ ops' = ops + 1
        /\ last' = [NoCall EXCEPT !.op = "insert", !.tuple = <<key, 0>>]
        /\ UNCHANGED <<inserted, distinct, lockVars, blockVars>>

\* Relation::into_temp, the first of the process (TEMP_COUNT is 0): the
\* relation is renamed; remove_dir_all is given a path outside DB_STORAGE
\* and its result is dropped
Temp_IntoTemp ==
    /\ temp.phase = "plain"
    /\ directory.fault = "none"
    /\ temp' = [temp EXCEPT !.phase = "temp", !.name = <<"temp0">> \o @,
                            !.renamed_at = bucket_count(directory)]
    /\ last' = [NoCall EXCEPT !.op = "into_temp"]
    /\ UNCHANGED <<directory, inserted, distinct, ops, lockVars, blockVars>>

\* Drop for TempRelation: the storage is swapped for a skeleton and dropped,
\* then the parent of DB_STORAGE/<name> is removed and the result unwrapped
Temp_Drop ==
    LET file == PathBuf_from(temp.name)
        parent == SubSeq(file, 1, Len(file) - 1)
    IN  /\ temp.phase = "temp"
        /\ directory.fault = "none"
        /\ directory' = Drop_BlockDirectory(directory)
        /\ temp' = IF parent \in temp.dirs
                   THEN [temp EXCEPT !.phase = "dropped", !.dirs = remove_dir_all(@, parent)]
                   ELSE [temp EXCEPT !.phase = "panicked"]
        /\ last' = [NoCall EXCEPT !.op = "drop"]
        /\ UNCHANGED <<inserted, distinct, ops, lockVars, blockVars>>

NextTemp ==
    \/ \E key \in Keys, slow \in BOOLEAN : Temp_Insert(key, slow)
    \/ Temp_IntoTemp
    \/ Temp_Drop

SpecTemp == InitTemp /\ [][NextTemp]_vars

\* C20 (as claimed): the drop of a temporary relation does not fail, and
\* after it every block has been flushed and no directory that held a block
\* file of the relation exists.
C20_TempDropRemovesStorage ==
    /\ temp.phase # "panicked"
    /\ temp.phase = "dropped" =>
           \A i \in 0..(bucket_count(directory) - 1) :
               /\ ~load_status(Bkt(directory, i).block)
               /\ file_dir(parent_table_of(temp, i)) \notin temp.dirs


(* -------------------- a relation renamed while in use ------------------- *)
\* number of calls made on the relation
MaxRenameOps == 3

\* Block::file_name of bucket `index`: the block's own parent_table and number
file_name(t, index) == <<parent_table_of(t, index), index>>

\* some block's file is not where file_name looks for it: load cannot open
\* it and unload cannot remove it (both results are unwrapped), so a call
\* on the store made in this state panics
file_missing(D, t) == \E i \in BucketIds(D) : file_name(t, i) \notin t.files

\* Block::new for the buckets a call added: initialize_file creates each
\* file under the name the directory has at that time
files_created(t, D, D2) ==
    t.files \cup {<<t.name, i>> : i \in bucket_count(D)..(bucket_count(D2) - 1)}

\* Relation::tuples collected, on the files of the disk: [dir, out]
Rn_all_tuples(D, t, slow) ==
    IF file_missing(D, t) THEN [dir |-> [D EXCEPT !.fault = "panic"], out |-> <<>>]
    ELSE all_tuples(D, slow)

\* BlockDirectory::insert, on the files of the disk: [dir, ret]
Rn_insert(D, t, tuple, slow) ==
    IF file_missing(D, t) THEN [dir |-> [D EXCEPT !.fault = "panic"], ret |-> None]
    ELSE insert(D, tuple, hash_tuple(tuple), slow)

InitRename == StoreInit(1..MaxCap) /\ LockInit /\ TempInit /\ BlockInit

\* Relation::insert
Rn_Insert(key, slow) ==
    LET tuple == next_tuple(key)
        returned(r) ==
            /\ directory' = r.dir
            /\ temp' = [temp EXCEPT !.files = files_created(temp, directory, r.dir)]
            /\ last' = [NoCall EXCEPT !.op = "insert", !.tuple = tuple, !.ret = r.ret,
                            !.count_before = bucket_count(directory)]
    IN  /\ ops < MaxRenameOps
        /\ directory.fault = "none"
        /\ returned(Rn_insert(directory, temp, tuple, slow))
        /\ inserted' = [h \in DOMAIN inserted \cup {hash_tuple(tuple)} |->
                           IF h = hash_tuple(tuple) THEN tuple ELSE inserted[h]]
        /\ distinct' = (distinct /\ hash_tuple(tuple) \notin DOMAIN inserted)
        /\ ops' = ops + 1
        /\ UNCHANGED <<lockVars, blockVars>>

\* Relation::rename of a relation that holds tuples: the relation, its
\* TupleStorage and its BlockDirectory take the new name; last.out keeps
\* what tuples() would have returned just before
Rn_Rename ==
    /\ temp.phase = "plain"
    /\ directory.fault = "none"
    /\ bucket_count(directory) >= 1
    /\ temp' = [temp EXCEPT
                  !.phase = "renamed", !.name = <<"renamed">>,
                  !.renamed_at = bucket_count(directory),
                  !.mixed = /\ \E i \in BucketIds(directory) :
                                  load_status(Bkt(directory, i).block)
                            /\ \E i \in BucketIds(directory) :
                                  ~load_status(Bkt(directory, i).block)]
    /\ last' = [NoCall EXCEPT !.op = "rename",
                              !.out = Rn_all_tuples(directory, temp, FALSE).out]
    /\ UNCHANGED <<directory, inserted, distinct, ops, lockVars, blockVars>>

\* Relation::tuples, iterated to its end
Rn_Scan(slow) ==
    LET returned(r) ==
            /\ directory' = r.dir
            /\ last' = [NoCall EXCEPT !.op = "scan", !.out = r.out]
    IN  /\ ops < MaxRenameOps
        /\ directory.fault = "none"
        /\ returned(Rn_all_tuples(directory, temp, slow))
        /\ ops' = ops + 1
        /\ UNCHANGED <<inserted, distinct, temp, lockVars, blockVars>>

NextRename ==
    \/ \E key \in Keys, slow \in BOOLEAN : Rn_Insert(key, slow)
    \/ Rn_Rename
    \/ \E slow \in BOOLEAN : Rn_Scan(slow)

SpecRename == InitRename /\ [][NextRename]_vars

\* C21: once the relation is renamed, and after any later inserts (of
\* pairwise distinct hashes), splits, unloads and reloads, no call has
\* failed and a full scan yields every inserted tuple exactly once and
\* nothing else; right after the rename it yields the multiset it yielded
\* just before.
C21_RenameKeepsTuples ==
    (temp.phase = "renamed" /\ distinct) =>
        /\ directory.fault = "none"
        /\ \A slow \in BOOLEAN :
              LET scanned(r) ==
                      /\ r.dir.fault = "none"
                      /\ \A h \in DOMAIN inserted : Occurrences(r.out, inserted[h]) = 1
                      /\ Len(r.out) = Cardinality(DOMAIN inserted)
                      /\ last.op = "rename" =>
                            \A x \in Tuples : Occurrences(r.out, x) = Occurrences(last.out, x)
              IN  scanned(Rn_all_tuples(directory, temp, slow))

\* the relation was renamed with some blocks resident and some unloaded,
\* and a later insert added a bucket under the new name
C21_Witness ==
    /\ temp.phase = "renamed"
    /\ temp.mixed
    /\ distinct
    /\ bucket_count(directory) > temp.renamed_at
    /\ last.op = "insert"
    /\ Cardinality(DOMAIN inserted) >= 3


(* ------------------- conditions and their conjuncts --------------------- *)
\* number of leaves of the And trees tried
MaxLeaves == 4

\* Condition::new; an operation is <<"Equals", operand>>, <<"Nequals",
\* operand>>, <<"And", operation, condition>> or <<"Or", operation, condition>>
Condition_new(base, operation) == [base |-> base, operation |-> operation]

\* Condition::and: the left condition's base, its operation boxed as the
\* inner operation and the right condition boxed as the next one
Condition_and(left, right) ==
    Condition_new(left.base, <<"And", left.operation, right>>)

RECURSIVE split_and(_)

\* split_and that pushes the extracted condition as it is
split_and_unflattened(self) ==
    LET RECURSIVE loop(_, _)
        loop(ptr, output) ==
            IF ptr.operation[1] = "And"
            THEN loop(ptr.operation[3],
                      Append(output, Condition_new(ptr.base, ptr.operation[2])))
            ELSE Append(output, ptr)
    IN  loop(self, <<>>)

\* Condition::split_and: while ptr is an And, the extracted inner condition
\* is split and appended and ptr moves to the next one; what is left of ptr
\* is pushed last
split_and(self) ==
    LET RECURSIVE loop(_, _)
        loop(ptr, output) ==
            IF ptr.operation[1] = "And"
            THEN loop(ptr.operation[3],
                      output \o split_and(Condition_new(ptr.base, ptr.operation[2])))
            ELSE Append(output, ptr)
    IN  loop(self, <<>>)

\* the conditions without an And at the top: the two of and_equivalence and
\* an Or over an And
LeafConditions ==
    LET eq == Condition_new("field1", <<"Equals", 32>>)
        ne == Condition_new("field2", <<"Nequals", 34>>)
    IN  {eq, ne, Condition_new("field1", <<"Or", eq.operation, Condition_and(ne, eq)>>)}

\* the ways of nesting Condition::and over k of the conditions:
\* <<"leaf", condition>> or <<"and", left, right>>
RECURSIVE AndTrees(_, _)
AndTrees(conditions, k) ==
    IF k = 1 THEN {<<"leaf", c>> : c \in conditions}
    ELSE UNION {{<<"and", l, r>> : l \in AndTrees(conditions, i),
                                   r \in AndTrees(conditions, k - i)} : i \in 1..(k - 1)}

\* the condition the nested calls return
RECURSIVE built(_)
built(tree) ==
    IF tree[1] = "leaf" THEN tree[2] ELSE Condition_and(built(tree[2]), built(tree[3]))

\* the leaves of the nesting, left to right
RECURSIVE leaves(_)
leaves(tree) ==
    IF tree[1] = "leaf" THEN <<tree[2]>> ELSE leaves(tree[2]) \o leaves(tree[3])

InitCond ==
    /\ StoreInit({1}) /\ LockInit /\ BlockInit
    /\ \E k \in 1..MaxLeaves : \E tree \in AndTrees(LeafConditions, k) :
          temp = [phase |-> "plain", name |-> <<"test">>, renamed_at |-> 0, dirs |-> {},
                  files |-> {}, mixed |-> FALSE, tree |-> tree]

\* built(tree).split_and()
Cond_Split ==
    /\ last.op = "none"
    /\ last' = [NoCall EXCEPT !.op = "split_and", !.tuple = <<built(temp.tree)>>,
                              !.ret = split_and(built(temp.tree))]
    /\ UNCHANGED <<directory, inserted, distinct, ops, lockVars, temp, blockVars>>

NextCond == Cond_Split

SpecCond == InitCond /\ [][NextCond]_vars

\* C29: split_and returns the leaf conjuncts of a nested And, left to right:
\* the split of and(a, b) is the split of a followed by the split of b, no
\* returned condition has an And at its top, and a condition that is not an
\* And comes back alone.
C29_SplitAndFlattens ==
    last.op = "split_and" =>
        /\ last.ret = leaves(temp.tree)
        /\ \A i \in 1..Len(last.ret) : last.ret[i].operation[1] # "And"
        /\ temp.tree[1] = "and" =>
              last.ret = split_and(built(temp.tree[2])) \o split_and(built(temp.tree[3]))
        /\ last.tuple[1].operation[1] # "And" => last.ret = last.tuple

\* a split And of four leaves whose two sides are Ands themselves
C29_Witness ==
    /\ last.op = "split_and"
    /\ Len(last.ret) = 4
    /\ temp.tree[1] = "and"
    /\ temp.tree[2][1] = "and"
    /\ temp.tree[3][1] = "and"


(* ------------------------- query trees and their cost ------------------- *)
\* nodes of the trees built, each Selection counted once per conjunct
MaxNodes == 4
\* tuples held by a source relation
MaxSourceLen == 2
\* what a float beyond the range of usize is cast to: usize::MAX on the
\* target, written as the largest integer at hand; the casts and
\* comparisons below only tell it from the small estimates
usize_MAX == 2147483647

\* a Relation as a query sees it: its name, its attribute names and, bucket
\* by bucket, the tuples it holds
Relation_new(name, attributes, blocks) ==
    [name |-> name, attributes |-> attributes, blocks |-> blocks]

\* the sequences of a sequence, one after the other
RECURSIVE flatten(_)
flatten(seqs) == IF seqs = <<>> THEN <<>> ELSE Head(seqs) \o flatten(Tail(seqs))

\* Relation::len
Relation_len(relation) == Len(flatten(relation.blocks))

\* JoinCondition::new
JoinCondition(left_id, right_id) == [left_id |-> left_id, right_id |-> right_id]

\* a node: its id, its operation with what it carries (the relation of a
\* Source, the condition of a Selection, the condition of an InnerJoin, the
\* identifiers of a Projection, set by QueryNode::projection), its children
\* and the identifiers of its resulting relation. The mapping of a join maps
\* each of these identifiers to itself.
QueryNode(id, query, source, condition, join_condition, children, resulting_relation) ==
    [id |-> id, query |-> query, source |-> source, condition |-> condition,
     join |-> join_condition, projections |-> <<>>, children |-> children,
     resulting_relation |-> resulting_relation]

\* QueryNode::source
QueryNode_source(relation) ==
    QueryNode(0, "Source", <<relation>>, <<>>, <<>>, <<>>,
              [i \in 1..Len(relation.attributes) |-> Identifier(None, relation.attributes[i])])

\* QueryNode::increase_id_by: the node's id grows by `by`, the id of its
\* i-th child (counted from 0) by i
RECURSIVE increase_id_by(_, _)
increase_id_by(node, by) ==
    [node EXCEPT !.id = @ + by,
                 !.children = [i \in DOMAIN @ |-> increase_id_by(@[i], i - 1)]]

\* QueryNode::increment_id
increment_id(node) == increase_id_by(node, 1)

\* QueryNode::count, which QueryNode::nodes repeats
RECURSIVE count(_)
count(node) ==
    LET RECURSIVE sum(_)
        sum(i) == IF i > Len(node.children) THEN 0 ELSE count(node.children[i]) + sum(i + 1)
    IN  1 + sum(1)

\* QueryNode::cross_product
cross_product(left, right) ==
    QueryNode(0, "CrossProduct", <<>>, <<>>, <<>>,
              <<increment_id(left), increase_id_by(right, 1 + count(increment_id(left)))>>,
              left.resulting_relation \o right.resulting_relation)

\* QueryNode::inner_join
inner_join(left, right, condition) ==
    QueryNode(0, "InnerJoin", <<>>, <<>>, <<condition>>,
              <<increment_id(left), increase_id_by(right, 1 + count(increment_id(left)))>>,
              left.resulting_relation \o right.resulting_relation)

\* QueryNode::select_on_condition
select_on_condition(node, condition) ==
    QueryNode(0, "Selection", <<>>, <<condition>>, <<>>, <<node>>, node.resulting_relation)

\* QueryNode::projection
projection(node, fields) ==
    LET exposed(id) == \E i \in 1..Len(node.resulting_relation) : node.resulting_relation[i] = id
    IN  [QueryNode(0, "Projection", <<>>, <<>>, <<>>, <<increment_id(node)>>,
                   SelectSeq(fields, exposed))
            EXCEPT !.projections = fields]

\* ConditionOperation::selectivity, an f64, as <<numerator, denominator>>: a
\* denominator of 0 is an infinity of the numerator's sign (1.0 / 0 as f64).
\* Of max_tuples = usize::MAX, 1.0 / max_tuples is 2^-64, which every cast
\* truncates like 0, and 1.0 - 2^-64 rounds to 1.0. Or is in none of the
\* conditions tried.
RECURSIVE selectivity(_, _)
selectivity(operation, max_tuples) ==
    LET times(c, r) == <<c[1] * r[1], c[2] * r[2]>>
    IN  CASE operation[1] = "Equals" ->
                IF max_tuples = usize_MAX THEN <<0, 1>> ELSE <<1, max_tuples>>
          [] operation[1] = "Nequals" ->
                IF max_tuples = usize_MAX THEN <<1, 1>>
                ELSE IF max_tuples = 0 THEN <<-1, 0>>
                ELSE <<max_tuples - 1, max_tuples>>
          [] operation[1] = "And" ->
                times(selectivity(operation[2], max_tuples),
                      selectivity(operation[3].operation, max_tuples))

\* `as usize` of an f64: truncated, and saturated at the ends of the range
as_usize(float) ==
    IF float[2] = 0 THEN (IF float[1] > 0 THEN usize_MAX ELSE 0)
    ELSE float[1] \div float[2]

\* QueryNode::approximate_created_tuples
RECURSIVE approximate_created_tuples(_)
approximate_created_tuples(node) ==
    LET child(i) == approximate_created_tuples(node.children[i])
    IN  CASE node.query = "Source" -> Relation_len(node.source[1])
          [] node.query = "Projection" -> child(1)
          [] node.query = "Selection" ->
                as_usize(selectivity(node.condition[1].operation, child(1)))
          [] node.query = "CrossProduct" -> child(1) * child(2)
          [] node.query = "InnerJoin" ->
                IF child(1) >= child(2) THEN child(1) ELSE child(2)

\* split_all_ands without the descent into the children
split_all_ands_at_root(node) ==
    LET split_conditions ==
            IF node.query = "Selection" THEN split_and(node.condition[1]) ELSE <<>>
        RECURSIVE selected(_, _)
        selected(ptr, i) ==
            IF i > Len(split_conditions) THEN ptr
            ELSE selected(select_on_condition(ptr, split_conditions[i]), i + 1)
    IN  IF Len(split_conditions) > 1 THEN selected(node.children[1], 1) ELSE node

\* Optimizer::split_all_ands: a Selection whose condition splits in more than
\* one is replaced by its child under one Selection per split condition, the
\* first one innermost; then the children of the node now in place are split
RECURSIVE split_all_ands(_)
split_all_ands(node) ==
    LET split_conditions ==
            IF node.query = "Selection" THEN split_and(node.condition[1]) ELSE <<>>
        RECURSIVE selected(_, _)
        selected(ptr, i) ==
            IF i > Len(split_conditions) THEN ptr
            ELSE selected(select_on_condition(ptr, split_conditions[i]), i + 1)
        descend(replaced) ==
            [replaced EXCEPT !.children = [i \in DOMAIN @ |-> split_all_ands(@[i])]]
    IN  descend(IF Len(split_conditions) > 1 THEN selected(node.children[1], 1) ELSE node)

\* the nodes of a tree, a Selection counted once per conjunct
RECURSIVE count_conjuncts(_)
count_conjuncts(node) ==
    LET RECURSIVE sum(_)
        sum(i) == IF i > Len(node.children) THEN 0
                  ELSE count_conjuncts(node.children[i]) + sum(i + 1)
    IN  (IF node.query = "Selection" THEN Len(split_and(node.condition[1])) ELSE 1) + sum(1)

\* the conditions of the selections built: the two of and_equivalence, and
\* every nesting of Condition::and over them that leaves a node for a source
PlanLeaves ==
    {Condition_new("field1", <<"Equals", 32>>), Condition_new("field1", <<"Nequals", 34>>)}
PlanConditions ==
    UNION {{built(tree) : tree \in AndTrees(PlanLeaves, k)} : k \in 1..(MaxNodes - 1)}

\* the relation of and_equivalence with the tuples 0 .. source_len - 1, in
\* one bucket
PlanRelation(source_len) ==
    Relation_new("test1", <<"field1">>, <<[i \in 1..source_len |-> <<i - 1>>]>>)

\* the trees a join takes as its other side: a source, or a Selection over
\* one that leaves a node for the join and one for the tree in hand
JoinOperands ==
    LET sources == {QueryNode_source(PlanRelation(n)) : n \in 0..MaxSourceLen}
        conditions ==
            UNION {{built(tree) : tree \in AndTrees(PlanLeaves, k)} : k \in 1..(MaxNodes - 3)}
    IN  sources \cup {select_on_condition(source, c) : source \in sources, c \in conditions}

\* whether the estimate of the tree, as built and as split, is below the
\* saturated one: a cross product over such sides multiplies without overflow
multipliable(node) ==
    /\ approximate_created_tuples(node) < usize_MAX
    /\ approximate_created_tuples(split_all_ands(node)) < usize_MAX

InitPlan ==
    /\ StoreInit({1}) /\ LockInit /\ BlockInit
    /\ \E source_len \in 0..MaxSourceLen :
          temp = [phase |-> "plain", name |-> <<"test">>, renamed_at |-> 0, dirs |-> {},
                  files |-> {}, mixed |-> FALSE, plan |-> QueryNode_source(PlanRelation(source_len))]

\* the tree in hand is replaced by one built over it
Plan_built(op, node) ==
    /\ count_conjuncts(node) <= MaxNodes
    /\ temp' = [temp EXCEPT !.plan = node]
    /\ last' = [NoCall EXCEPT !.op = op]
    /\ UNCHANGED <<directory, inserted, distinct, ops, lockVars, blockVars>>

\* QueryNode::select_on_condition(plan, condition)
Plan_Select(condition) ==
    /\ last.op # "optimize"
    /\ Plan_built("select", select_on_condition(temp.plan, condition))

\* QueryNode::projection(plan, fields)
Plan_Projection ==
    /\ last.op # "optimize"
    /\ Plan_built("projection", projection(temp.plan, <<Identifier(None, "field1")>>))

\* QueryNode::cross_product, the tree in hand on either side
Plan_CrossProduct(other, swapped) ==
    /\ last.op # "optimize"
    /\ multipliable(temp.plan)
    /\ multipliable(other)
    /\ Plan_built("cross_product", IF swapped THEN cross_product(other, temp.plan)
                                   ELSE cross_product(temp.plan, other))

\* the join condition of the inner joins built
PlanJoin == JoinCondition(Identifier(None, "field1"), Identifier(None, "field1"))

\* QueryNode::inner_join, the tree in hand on either side
Plan_InnerJoin(other, swapped) ==
    /\ last.op # "optimize"
    /\ Plan_built("inner_join",
                  IF swapped THEN inner_join(other, temp.plan, PlanJoin)
                  ELSE inner_join(temp.plan, other, PlanJoin))

\* QueryNode::optimized: Optimizer::new takes the estimate of the tree as
\* start_tuples, optimize splits the Ands and returns the estimate of the
\* tree now in place over start_tuples, kept as <<estimate, start_tuples>>;
\* last.tuple keeps the tree as it was
Plan_Optimize ==
    /\ last.op # "optimize"
    /\ temp' = [temp EXCEPT !.plan = split_all_ands(temp.plan)]
    /\ last' = [NoCall EXCEPT !.op = "optimize", !.tuple = <<temp.plan>>,
                   !.ret = <<approximate_created_tuples(split_all_ands(temp.plan)),
                             approximate_created_tuples(temp.plan)>>]
    /\ UNCHANGED <<directory, inserted, distinct, ops, lockVars, blockVars>>

\* optimize_query on the tree a first run left: a new Optimizer takes the
\* estimate of that tree as start_tuples; last.out keeps what the first run
\* returned
Plan_OptimizeAgain ==
    /\ last.op = "optimize"
    /\ temp' = [temp EXCEPT !.plan = split_all_ands(temp.plan)]
    /\ last' = [NoCall EXCEPT !.op = "optimize_again", !.tuple = <<temp.plan>>,
                   !.ret = <<approximate_created_tuples(split_all_ands(temp.plan)),
                             approximate_created_tuples(temp.plan)>>,
                   !.out = last.ret]
    /\ UNCHANGED <<directory, inserted, distinct, ops, lockVars, blockVars>>

NextPlan ==
    \/ \E condition \in PlanConditions : Plan_Select(condition)
    \/ Plan_Projection
    \/ \E other \in JoinOperands, swapped \in BOOLEAN : Plan_CrossProduct(other, swapped)
    \/ \E other \in JoinOperands, swapped \in BOOLEAN : Plan_InnerJoin(other, swapped)
    \/ Plan_Optimize
    \/ Plan_OptimizeAgain

SpecPlan == InitPlan /\ [][NextPlan]_vars

\* the ids of the nodes of a tree, root first
RECURSIVE ids(_)
ids(node) ==
    LET RECURSIVE below(_)
        below(i) == IF i > Len(node.children) THEN <<>>
                    ELSE ids(node.children[i]) \o below(i + 1)
    IN  <<node.id>> \o below(1)

\* C30 (as claimed): in every tree built by the constructors, no two nodes
\* have the same id.
C30_NodeIdsDistinct ==
    last.op \in {"none", "select", "projection", "cross_product", "inner_join"} =>
        \A i, j \in 1..Len(ids(temp.plan)) :
            i # j => ids(temp.plan)[i] # ids(temp.plan)[j]

\* C28 (as claimed): a Selection on a single Equals over a child estimated at
\* n >= 1 tuples is estimated at 1 tuple, and one on a single Nequals at
\* n - 1: the selectivity times n.
C28_SelectionEstimateScaled ==
    LET n == approximate_created_tuples(temp.plan.children[1])
        operation == temp.plan.condition[1].operation
    IN  (last.op = "select" /\ operation[1] # "And" /\ n >= 1 /\ n < usize_MAX) =>
            approximate_created_tuples(temp.plan) =
                IF operation[1] = "Equals" THEN 1 ELSE n - 1

\* C26 (as claimed): for a Selection over a source on an And of Equals and
\* Nequals, in any order and for any length of the source, the estimate of
\* the tree with the Ands split equals the estimate of the tree as it was.
C26_SplitKeepsEstimate ==
    (/\ last.op = "optimize"
     /\ last.tuple[1].query = "Selection"
     /\ last.tuple[1].children[1].query = "Source") =>
        /\ approximate_created_tuples(temp.plan) = approximate_created_tuples(last.tuple[1])
        /\ last.ret[1] = last.ret[2]

\* C27 (as claimed): the estimate of the tree optimize() leaves is at most
\* the estimate of the tree it was given, so the returned ratio is at most 1.
C27_OptimizeNeverRaisesEstimate ==
    last.op = "optimize" =>
        /\ approximate_created_tuples(temp.plan) <= approximate_created_tuples(last.tuple[1])
        /\ last.ret[1] <= last.ret[2]

\* the f64 that optimize returns for <<estimate, start_tuples>>, as far as
\* it is told from 1.0: 0/0 is NaN, n/0 an infinity, n/n is 1.0
ratio(estimates) ==
    IF estimates[2] = 0 THEN (IF estimates[1] = 0 THEN <<"NaN">> ELSE <<"inf">>)
    ELSE IF estimates[1] = estimates[2] THEN <<"1.0">>
    ELSE <<"other", estimates[1], estimates[2]>>

RECURSIVE folded(_)
folded(node) ==
    LET over(inner) ==
            IF inner.query = "Selections"
            THEN [inner EXCEPT !.conjuncts = @ \o split_and(node.condition[1])]
            ELSE [query |-> "Selections", conjuncts |-> split_and(node.condition[1]),
                  source |-> <<>>, children |-> <<inner>>]
    IN  IF node.query = "Selection" THEN over(folded(node.children[1]))
        ELSE [query |-> node.query, conjuncts |-> <<>>, source |-> node.source,
              children |-> [i \in DOMAIN node.children |-> folded(node.children[i])]]

\* C25: after optimize() no Selection of the tree has an And at the top of
\* its condition; every Selection of n conjuncts has become n Selections of
\* one conjunct each, in order from the innermost, over the child it had;
\* and the tree has n - 1 more nodes for each.
C25_AndsSplitIntoChains ==
    last.op = "optimize" =>
        /\ \A condition \in find_all_selections(temp.plan) : condition.operation[1] # "And"
        /\ folded(temp.plan) = folded(last.tuple[1])
        /\ count(temp.plan) = count_conjuncts(last.tuple[1])

\* a tree was optimized whose root is a Selection on one conjunct over a
\* Selection on an And, and has one node more
C25_Witness ==
    /\ last.op = "optimize"
    /\ last.tuple[1].query = "Selection"
    /\ last.tuple[1].condition[1].operation[1] # "And"
    /\ last.tuple[1].children[1].query = "Selection"
    /\ last.tuple[1].children[1].condition[1].operation[1] = "And"
    /\ count(temp.plan) = count(last.tuple[1]) + 1


(* ------------------------------ the executor --------------------------- *)
\* tuples held by a relation a query is executed over, and its buckets
MaxExecRows == 2
MaxBuckets == 2
\* ITEMS_PER_BLOCK of query_result.rs
ITEMS_PER_BLOCK == 16

\* Relation::blocks, a BlockIterator run to its end: the vector of tuples of
\* each bucket, in bucket order
Relation_blocks(relation) == relation.blocks

\* a QueryResult: its relation, its internal iterator (<<"Tuple", tuples>>
\* or <<"RepeatableBlock", blocks>>) and its count of created tuples
QueryResult(relation, internal, total) ==
    [status |-> "Ok", relation |-> relation, internal |-> internal, total |-> total]

\* QueryResult::from_source: the result wraps the block iterator of the
\* relation, which can be restarted
from_source(relation, source) ==
    QueryResult(relation, <<"RepeatableBlock", Relation_blocks(source)>>, Relation_len(source))

\* QueryResult::total_created_tuples
total_created_tuples(result) == result.total

\* QueryResult::with_tuples, as execute_query calls it
with_tuples(relation, tuples, extra) ==
    QueryResult(relation, <<"Tuple", tuples>>, Len(tuples) + extra)

\* QueryResult::tuples
QueryResult_tuples(result) ==
    IF result.internal[1] = "Tuple" THEN result.internal[2] ELSE flatten(result.internal[2])

\* QueryResult::blocks: the tuples of a Tuple iterator in vectors of
\* ITEMS_PER_BLOCK, the blocks of a block iterator as they come
RECURSIVE in_blocks(_)
in_blocks(tuples) ==
    IF tuples = <<>> THEN <<>>
    ELSE IF Len(tuples) <= ITEMS_PER_BLOCK THEN <<tuples>>
    ELSE <<SubSeq(tuples, 1, ITEMS_PER_BLOCK)>>
         \o in_blocks(SubSeq(tuples, ITEMS_PER_BLOCK + 1, Len(tuples)))
QueryResult_blocks(result) ==
    IF result.internal[1] = "Tuple" THEN in_blocks(result.internal[2]) ELSE result.internal[2]

\* QueryResult::repeatable_blocks
repeatable_blocks(result) ==
    IF result.internal[1] = "Tuple" THEN None ELSE Some(result.internal[2])

\* identifier_mappings that puts every identifier at index 0
identifier_mappings_first(result) ==
    [id \in {result.relation[i] : i \in 1..Len(result.relation)} |-> 0]

\* QueryResult::identifier_mappings: the HashMap collected from (identifier,
\* index) in order, a later index replacing an earlier one
identifier_mappings(result) ==
    [id \in {result.relation[i] : i \in 1..Len(result.relation)} |->
        (CHOOSE i \in 1..Len(result.relation) :
            /\ result.relation[i] = id
            /\ \A j \in (i + 1)..Len(result.relation) : result.relation[j] # id) - 1]

\* the loops of a join whose right blocks are only gone through once
joined_right_once(left_blocks, right_blocks, on) ==
    LET pushed(l, r) ==
            IF on = None \/ l[on[1][1] + 1] = r[on[1][2] + 1] THEN <<l \o r>> ELSE <<>>
        block_pair(lb, rb) ==
            flatten([a \in 1..Len(lb) |-> flatten([b \in 1..Len(rb) |-> pushed(lb[a], rb[b])])])
    IN  flatten([i \in 1..Len(left_blocks) |->
            IF i > 1 THEN <<>>
            ELSE flatten([j \in 1..Len(right_blocks) |->
                             block_pair(left_blocks[i], right_blocks[j])])])

\* the loops of a join arm of execute_query: for each left block, for each
\* right block (the right blocks started again), for each left tuple, for
\* each right tuple, the concatenation is pushed; `on` is None for a cross
\* product and Some(<<left_index, right_index>>) for an inner join, which
\* pushes the pairs equal at these indexes
joined(left_blocks, right_blocks, on) ==
    LET pushed(l, r) ==
            IF on = None \/ l[on[1][1] + 1] = r[on[1][2] + 1] THEN <<l \o r>> ELSE <<>>
        block_pair(lb, rb) ==
            flatten([a \in 1..Len(lb) |-> flatten([b \in 1..Len(rb) |-> pushed(lb[a], rb[b])])])
    IN  flatten([i \in 1..Len(left_blocks) |->
            flatten([j \in 1..Len(right_blocks) |->
                        block_pair(left_blocks[i], right_blocks[j])])])

\* QueryNode::execute_query; a panic is a result of status "panic"
RECURSIVE execute_query(_)
execute_query(node) ==
    LET panic == [status |-> "panic", relation |-> <<>>, internal |-> <<"Tuple", <<>>>>,
                  total |-> 0]
        mapped(id) ==
            \E i \in 1..Len(node.resulting_relation) : node.resulting_relation[i] = id
        output_tuples(left, right, on) ==
            IF repeatable_blocks(right) # None
            THEN joined(QueryResult_blocks(left), repeatable_blocks(right)[1], on)
            ELSE joined(<<QueryResult_tuples(left)>>, <<QueryResult_tuples(right)>>, on)
        returned(left, right, on) ==
            with_tuples(node.resulting_relation, output_tuples(left, right, on),
                        total_created_tuples(left) + total_created_tuples(right))
        indexed(left, right, left_mappings, right_mappings) ==
            IF \/ node.join[1].left_id \notin DOMAIN left_mappings
               \/ node.join[1].right_id \notin DOMAIN right_mappings
            THEN panic
            ELSE returned(left, right, Some(<<left_mappings[node.join[1].left_id],
                                             right_mappings[node.join[1].right_id]>>))
        inner_join_arm(left, right) ==
            IF left.status = "panic" \/ right.status = "panic" THEN panic
            ELSE indexed(left, right, identifier_mappings(left), identifier_mappings(right))
        cross_product_arm(left, right) ==
            IF left.status = "panic" \/ right.status = "panic" THEN panic
            ELSE returned(left, right, None)
    IN  CASE node.query = "Source" /\ node.children = <<>> ->
                from_source(node.resulting_relation, node.source[1])
          [] node.query = "InnerJoin" /\ Len(node.children) = 2 ->
                IF ~mapped(node.join[1].left_id) \/ ~mapped(node.join[1].right_id) THEN panic
                ELSE inner_join_arm(execute_query(node.children[1]),
                                    execute_query(node.children[2]))
          [] node.query = "CrossProduct" /\ Len(node.children) = 2 ->
                cross_product_arm(execute_query(node.children[1]),
                                  execute_query(node.children[2]))
          [] OTHER -> panic

\* the ways of holding up to MaxExecRows distinct tuples in up to MaxBuckets
\* buckets, in every order and with empty buckets
RECURSIVE Arrangements(_, _)
Arrangements(tuples, n) ==
    IF n = 0 THEN {<<>>}
    ELSE UNION {{Append(a, t) : t \in tuples \ {a[i] : i \in 1..Len(a)}} :
                   a \in Arrangements(tuples, n - 1)}
RECURSIVE Cuts(_, _)
Cuts(a, buckets) ==
    IF buckets = 0 THEN (IF a = <<>> THEN {<<>>} ELSE {})
    ELSE UNION {{<<SubSeq(a, 1, k)>> \o rest : rest \in Cuts(SubSeq(a, k + 1, Len(a)), buckets - 1)} :
                   k \in 0..Len(a)}
BucketLayouts(tuples) ==
    UNION {UNION {Cuts(a, buckets) : a \in Arrangements(tuples, n)} :
              n \in 0..MaxExecRows, buckets \in 0..MaxBuckets}

\* the relations executed over: l(x, y) and r(z), of values 0 and 1
ExecLeft == {Relation_new("l", <<"x", "y">>, blocks) : blocks \in BucketLayouts([1..2 -> Vals])}
ExecRight == {Relation_new("r", <<"z">>, blocks) : blocks \in BucketLayouts([1..1 -> Vals])}

\* the conditions of the selections executed
ExecConditions ==
    LET eq == Condition_new(Identifier(None, "x"), <<"Equals", 0>>)
        ne == Condition_new(Identifier(None, "y"), <<"Nequals", 1>>)
    IN  {eq, ne, Condition_and(eq, ne), Condition_and(ne, Condition_and(eq, ne))}

InitExec ==
    /\ StoreInit({1}) /\ LockInit /\ BlockInit
    /\ \E left \in ExecLeft, right \in ExecRight :
          temp = [phase |-> "plain", name |-> <<"test">>, renamed_at |-> 0, dirs |-> {},
                  files |-> {}, mixed |-> FALSE, left |-> left, right |-> right]

\* a tree is built and executed: last.tuple keeps the tree, last.ret the
\* QueryResult and last.out its tuples
Exec_executed(op, node) ==
    /\ last' = [NoCall EXCEPT !.op = op, !.tuple = <<node>>, !.ret = execute_query(node),
                              !.out = QueryResult_tuples(execute_query(node))]
    /\ UNCHANGED <<directory, inserted, distinct, ops, lockVars, temp, blockVars>>

\* execute_query of a Selection over Source(left), as built or optimized
Exec_Selection(condition, optimized) ==
    /\ last.op = "none"
    /\ Exec_executed("selection",
          IF optimized
          THEN split_all_ands(select_on_condition(QueryNode_source(temp.left), condition))
          ELSE select_on_condition(QueryNode_source(temp.left), condition))

\* execute_query of CrossProduct(Source(left), Source(right)), or of
\* CrossProduct(Source(left), CrossProduct(Source(right), Source(right)))
Exec_CrossProduct(nested) ==
    /\ last.op = "none"
    /\ Exec_executed("cross_product",
          cross_product(QueryNode_source(temp.left),
                        IF nested THEN cross_product(QueryNode_source(temp.right),
                                                     QueryNode_source(temp.right))
                        ELSE QueryNode_source(temp.right)))

\* execute_query of InnerJoin(Source(left), Source(right), (left_id, right_id))
Exec_InnerJoin(left_id, right_id) ==
    /\ last.op = "none"
    /\ Exec_executed("inner_join",
          inner_join(QueryNode_source(temp.left), QueryNode_source(temp.right),
                     JoinCondition(Identifier(None, left_id), Identifier(None, right_id))))

NextExec ==
    \/ \E condition \in ExecConditions, optimized \in BOOLEAN :
          Exec_Selection(condition, optimized)
    \/ \E nested \in BOOLEAN : Exec_CrossProduct(nested)
    \/ \E left_id \in {"x", "y", "z"}, right_id \in {"z", "w"} : Exec_InnerJoin(left_id, right_id)

SpecExec == InitExec /\ [][NextExec]_vars

\* whether a tuple of the relation satisfies the condition
RECURSIVE satisfies(_, _, _)
satisfies(tuple, relation, condition) ==
    LET value == tuple[CHOOSE i \in 1..Len(relation.attributes) :
                          relation.attributes[i] = condition.base.base]
    IN  CASE condition.operation[1] = "Equals" -> value = condition.operation[2]
          [] condition.operation[1] = "Nequals" -> value # condition.operation[2]
          [] condition.operation[1] = "And" ->
                /\ satisfies(tuple, relation,
                             Condition_new(condition.base, condition.operation[2]))
                /\ satisfies(tuple, relation, condition.operation[3])

\* the condition of a chain of selections, the innermost first
RECURSIVE chain_conditions(_)
chain_conditions(node) ==
    IF node.query = "Selection"
    THEN Append(chain_conditions(node.children[1]), node.condition[1])
    ELSE <<>>

\* C22 (as claimed): execute_query of a tree of selections over a source, as
\* built and as optimized, completes and returns exactly the tuples of the
\* source that satisfy the conditions, each once.
C22_SelectionExecutes ==
    last.op = "selection" =>
        /\ last.ret.status = "Ok"
        /\ \A t \in [1..2 -> Vals] :
              Occurrences(last.out, t) =
                  IF /\ Occurrences(flatten(temp.left.blocks), t) = 1
                     /\ \A i \in 1..Len(chain_conditions(last.tuple[1])) :
                           satisfies(t, temp.left, chain_conditions(last.tuple[1])[i])
                  THEN 1 ELSE 0

\* C23: execute_query of CrossProduct(Source L, Source R) completes and
\* returns |L| * |R| tuples: the concatenation of every tuple of L with every
\* tuple of R exactly once and nothing else, however the tuples lie in the
\* buckets of L and R.
C23_CrossProductAllPairs ==
    (last.op = "cross_product" /\ last.tuple[1].children[2].query = "Source") =>
        /\ last.ret.status = "Ok"
        /\ Len(last.out) = Relation_len(temp.left) * Relation_len(temp.right)
        /\ \A l \in [1..2 -> Vals], r \in [1..1 -> Vals] :
              Occurrences(last.out, l \o r) =
                  IF /\ Occurrences(flatten(temp.left.blocks), l) = 1
                     /\ Occurrences(flatten(temp.right.blocks), r) = 1
                  THEN 1 ELSE 0

\* two tuples of L in two buckets were paired with two tuples of R in two
\* buckets
C23_Witness ==
    /\ last.op = "cross_product"
    /\ last.tuple[1].children[2].query = "Source"
    /\ Len(temp.left.blocks) = 2 /\ Len(temp.left.blocks[1]) = 1 /\ Len(temp.left.blocks[2]) = 1
    /\ Len(temp.right.blocks) = 2 /\ Len(temp.right.blocks[1]) = 1
    /\ Len(temp.right.blocks[2]) = 1
    /\ Len(last.out) = 4

\* the position of an attribute in a relation's schema, from 1
position(relation, id) ==
    CHOOSE i \in 1..Len(relation.attributes) : relation.attributes[i] = id.base

\* C24: execute_query of InnerJoin(Source L, Source R, (left_id, right_id)),
\* left_id in the schema of L and right_id in the schema of R, completes and
\* returns exactly the concatenations of the tuples of L and R that are
\* equal at the positions of left_id and right_id, each once: the tuples of
\* the cross product of L and R that pass that equality.
C24_InnerJoinMatchesFilter ==
    LET joined_on == last.tuple[1].join[1]
        crossed == QueryResult_tuples(execute_query(
                       cross_product(QueryNode_source(temp.left), QueryNode_source(temp.right))))
        equal(l, r) == l[position(temp.left, joined_on.left_id)] = r[position(temp.right, joined_on.right_id)]
    IN  (/\ last.op = "inner_join"
         /\ joined_on.left_id.base \in {"x", "y"}
         /\ joined_on.right_id.base = "z") =>
            /\ last.ret.status = "Ok"
            /\ \A l \in [1..2 -> Vals], r \in [1..1 -> Vals] :
                  /\ Occurrences(last.out, l \o r) =
                        IF equal(l, r) THEN Occurrences(crossed, l \o r) ELSE 0
                  /\ Occurrences(last.out, l \o r) =
                        IF /\ equal(l, r)
                           /\ Occurrences(flatten(temp.left.blocks), l) = 1
                           /\ Occurrences(flatten(temp.right.blocks), r) = 1
                        THEN 1 ELSE 0
            /\ \A i \in 1..Len(last.out) : Len(last.out[i]) = 3

\* L joined on its second attribute, with one tuple that finds its equal in
\* R and one that does not, in two buckets
C24_Witness ==
    /\ last.op = "inner_join"
    /\ last.tuple[1].join[1].left_id.base = "y"
    /\ last.tuple[1].join[1].right_id.base = "z"
    /\ Len(temp.left.blocks) = 2 /\ Len(temp.left.blocks[1]) = 1 /\ Len(temp.left.blocks[2]) = 1
    /\ Relation_len(temp.right) = 1
    /\ Len(last.out) = 1
    /\ last.out[1][1] # last.out[1][2]


(* --------------------- the store: inserts that return ------------------ *)
\* C38 (as claimed): every insert call returns after finitely many splits,
\* for every bucket capacity and every sequence of hashes, a hash that is
\* stored in a full bucket included: no call goes on splitting past the
\* depth that tells all hashes apart.
C38_InsertTerminates ==
    last.op = "insert" => directory.fault # "exhausted"


(* ----------------------- the store: what a split leaves ---------------- *)
\* the inserts of Spec, none made while a call is between a split and its
\* retry
Frame_Insert(key) ==
    /\ last.op # "split"
    /\ Insert(key, FALSE)

\* the overflow branch of BlockDirectory::insert for a tuple under `key`, up
\* to the call it makes on itself: the bucket of the tuple's directory key is
\* full and is split. last.before keeps the directory as it was,
\* last.count_before the bucket split.
Frame_Split(key) ==
    LET tuple == next_tuple(key)
        directory_number == get_directory(directory, hash_tuple(tuple))
        bucket_num == get_bucket_num(directory, directory_number)
    IN  /\ directory.fault = "none"
        /\ last.op = "split" => last.tuple = tuple
        /\ bucket_num # None
        /\ Bkt(directory, bucket_num[1]).block.len = directory.bucket_size
        /\ ~split_exhausts(directory, bucket_num[1])
        /\ directory' = split_bucket(directory, bucket_num[1], directory_number, FALSE)
        /\ last' = [NoCall EXCEPT !.op = "split", !.tuple = tuple,
                                  !.before = Some(directory),
                                  !.count_before = bucket_num[1]]
        /\ UNCHANGED <<inserted, distinct, ops, lockVars, temp, blockVars>>

NextFrame ==
    \/ \E key \in Keys : Frame_Insert(key)
    \/ \E key \in Keys : Frame_Split(key)

SpecFrame == Init /\ [][NextFrame]_vars

\* C35: a split of bucket B, with the doubling it may make, leaves the
\* entries and the local depth of every bucket but B and the new one, and
\* the bucket of every directory key that did not map to B; a doubling at
\* global depth g maps each key k it finds, and k + 2^g, to the bucket of k.
C35_SplitFrame ==
    LET before == last.before[1]
        split == last.count_before
        doubled == expand_directory(before)
    IN  last.op = "split" =>
            /\ directory.fault = "none"
            /\ bucket_count(directory) = bucket_count(before) + 1
            /\ \A i \in BucketIds(before) \ {split} :
                  /\ block_entries(Bkt(directory, i).block) = block_entries(Bkt(before, i).block)
                  /\ Bkt(directory, i).local_depth = Bkt(before, i).local_depth
            /\ \A key \in DOMAIN before.directories :
                  before.directories[key] # split =>
                      directory.directories[key] = before.directories[key]
            /\ directory.global_depth > before.global_depth =>
                  /\ DOMAIN doubled.directories =
                        DOMAIN before.directories
                        \cup {key + Pow2(before.global_depth) : key \in DOMAIN before.directories}
                  /\ \A key \in DOMAIN before.directories :
                        /\ doubled.directories[key] = before.directories[key]
                        /\ doubled.directories[key + Pow2(before.global_depth)] =
                              before.directories[key]
                        /\ before.directories[key] # split =>
                              directory.directories[key + Pow2(before.global_depth)] =
                                  before.directories[key]

\* a split that doubled the directory while another bucket held a tuple
\* under a key of its own
C35_Witness ==
    /\ last.op = "split"
    /\ directory.global_depth > last.before[1].global_depth
    /\ \E key \in DOMAIN last.before[1].directories :
          /\ last.before[1].directories[key] # last.count_before
          /\ block_entries(Bkt(directory, last.before[1].directories[key]).block) # <<>>


(* ---------------------- iterating a result by reference ---------------- *)
\* calls of next made on one iterator
MaxYields == 4

\* BlockIterator: the blocks of a relation and the number already yielded
BlockIterator(relation) == [blocks |-> Relation_blocks(relation), at |-> 0]
\* BlockIterator::next: <<the iterator after the call, the block or None>>
BlockIterator_next(block_iterator) ==
    IF block_iterator.at < Len(block_iterator.blocks)
    THEN <<[block_iterator EXCEPT !.at = @ + 1],
           Some(block_iterator.blocks[block_iterator.at + 1])>>
    ELSE <<block_iterator, None>>

\* ReferencedQueryIterator::new; the backing is <<"Tuples", tuples>>,
\* <<"Blocks", blocks>> or <<"Source", relation>>
ReferencedQueryIterator_new(backing) ==
    [backing |-> backing, buffer |-> <<>>, blocks_count |-> 0, block_iterator |-> None]

\* self.buffer.pop_front(): <<the iterator after the call, the item>>
pop_front(it) ==
    IF it.buffer = <<>> THEN <<it, None>>
    ELSE <<[it EXCEPT !.buffer = Tail(@)], Some(Head(it.buffer))>>

\* self.buffer.extend(tuples) for an Option of a vector of tuples
extend_with(it, tuples) ==
    IF tuples = None THEN it ELSE [it EXCEPT !.buffer = @ \o tuples[1]]

\* ReferencedQueryIterator::next: <<the iterator after the call, the item>>.
\* The Source arm returns before it stores the block iterator it made.
ReferencedQueryIterator_next(it) ==
    IF it.buffer # <<>> THEN pop_front(it)
    ELSE IF it.block_iterator # None
    THEN LET stepped == BlockIterator_next(it.block_iterator[1])
         IN  pop_front(extend_with([it EXCEPT !.block_iterator = Some(stepped[1])], stepped[2]))
    ELSE CASE it.backing[1] = "Tuples" ->
                  pop_front(extend_with(it, Some(it.backing[2])))
           [] it.backing[1] = "Blocks" ->
                  pop_front([extend_with(it, IF it.blocks_count < Len(it.backing[2])
                                             THEN Some(it.backing[2][it.blocks_count + 1])
                                             ELSE None)
                                EXCEPT !.blocks_count = @ + 1])
           [] it.backing[1] = "Source" ->
                  pop_front(extend_with(it, BlockIterator_next(BlockIterator(it.backing[2]))[2]))

\* the tuples of a backing, block after block
backing_tuples(backing) ==
    CASE backing[1] = "Tuples" -> backing[2]
      [] backing[1] = "Blocks" -> flatten(backing[2])
      [] backing[1] = "Source" -> flatten(Relation_blocks(backing[2]))

\* the results iterated: lists of up to MaxExecRows tuples, lists of up to
\* MaxBuckets blocks, and the relations l(x, y) of the executor
IterBackings ==
    {<<"Tuples", flatten(blocks)>> : blocks \in BucketLayouts([1..2 -> Vals])}
    \cup {<<"Blocks", blocks>> : blocks \in BucketLayouts([1..2 -> Vals])}
    \cup {<<"Source", relation>> : relation \in ExecLeft}

InitIter ==
    /\ directory = BlockDirectory_new(1) /\ inserted = << >> /\ distinct = TRUE /\ ops = 0
    /\ LockInit /\ BlockInit
    /\ \E backing \in IterBackings :
          /\ temp = [phase |-> "plain", name |-> <<"test">>, renamed_at |-> 0, dirs |-> {},
                     files |-> {}, mixed |-> FALSE, iter |-> ReferencedQueryIterator_new(backing)]
          /\ last = [NoCall EXCEPT !.tuple = <<backing>>]

\* one call of next by a for loop, which stops at the first None: last.out
\* keeps the tuples yielded so far, last.ret the item of this call and
\* last.count_before the number of calls
Iter_Next ==
    /\ last.count_before < MaxYields
    /\ last.op = "next" => last.ret # None
    /\ temp' = [temp EXCEPT !.iter = ReferencedQueryIterator_next(temp.iter)[1]]
    /\ last' = [last EXCEPT !.op = "next", !.count_before = @ + 1,
                            !.ret = ReferencedQueryIterator_next(temp.iter)[2],
                            !.out = IF ReferencedQueryIterator_next(temp.iter)[2] = None THEN @
                                    ELSE Append(@, ReferencedQueryIterator_next(temp.iter)[2][1])]
    /\ UNCHANGED <<directory, inserted, distinct, ops, lockVars, blockVars>>

NextIter == Iter_Next

SpecIter == InitIter /\ [][NextIter]_vars

\* C40 (as claimed): the iteration yields each tuple of the result once, in
\* the order of the result, and the call after the last tuple returns None
C40_YieldsEachTupleOnce ==
    last.op = "next" =>
        /\ Len(last.out) <= Len(backing_tuples(last.tuple[1]))
        /\ last.out = SubSeq(backing_tuples(last.tuple[1]), 1, Len(last.out))
        /\ last.ret = None => last.out = backing_tuples(last.tuple[1])


(* ------------------- the block: the flag of an unload ------------------- *)
\* the threads inside Block::unload, past its compare_and_swap
Unloading == {t \in Threads : thr[t].pc \in {"u_take", "u_remove", "u_write", "u_flag"}}

\* C39 (as claimed): load_block is set only while a thread is inside
\* unload, so no load waits on it once the unloads have ended.
C39_LoadFlagClears ==
    blk.load_block => Unloading # {}


(* ------------------- the lock of the directory, alone ------------------ *)
\* threads that take guards on one Lock, and guards of a kind one thread holds
NLockThreads == 3
MaxGuards == 2

LockThreads == 1..NLockThreads

\* a thread: where it is (idle, or inside the loop of read() or of write())
\* and the guards it holds
InitGuards ==
    /\ StoreInit({1}) /\ LockInit /\ BlockInit
    /\ temp = [phase |-> "plain", name |-> <<"test">>, renamed_at |-> 0, dirs |-> {},
               files |-> {}, mixed |-> FALSE,
               guards |-> [t \in LockThreads |-> [pc |-> "idle", read |-> 0, write |-> FALSE]]]

\* what a step of thread t leaves: the lock, the thread and the call made
Guard_step(t, op, lock, pc, read, write) ==
    /\ bucket_lock' = lock
    /\ temp' = [temp EXCEPT !.guards[t] = [pc |-> pc, read |-> read, write |-> write]]
    /\ last' = [NoCall EXCEPT !.op = op, !.tuple = <<t>>]
    /\ UNCHANGED <<directory, inserted, distinct, ops, writer, reader, blockVars>>

\* Lock::read is called: the thread enters the loop over try_read
Guard_Read(t) ==
    /\ temp.guards[t].pc = "idle"
    /\ temp.guards[t].read < MaxGuards
    /\ Guard_step(t, "read", bucket_lock, "read", temp.guards[t].read, temp.guards[t].write)

\* Lock::try_read succeeds, under internal_lock: the count of reads grows and
\* read() returns a LockRead (a try that fails changes nothing and is retried)
Guard_TryRead(t) ==
    /\ temp.guards[t].pc = "read"
    /\ can_read(bucket_lock)
    /\ Guard_step(t, "try_read", [bucket_lock EXCEPT !.read = @ + 1], "idle",
                  temp.guards[t].read + 1, temp.guards[t].write)

\* Lock::write is called: the thread enters the loop over try_write
Guard_Write(t) ==
    /\ temp.guards[t].pc = "idle"
    /\ ~temp.guards[t].write
    /\ Guard_step(t, "write", bucket_lock, "write", temp.guards[t].read, temp.guards[t].write)

\* Lock::try_write succeeds, under internal_lock: no read is counted and the
\* write flag goes from false to true; write() returns a LockWrite
Guard_TryWrite(t) ==
    /\ temp.guards[t].pc = "write"
    /\ can_write(bucket_lock)
    /\ Guard_step(t, "try_write", [bucket_lock EXCEPT !.write = TRUE], "idle",
                  temp.guards[t].read, TRUE)

\* Clone for LockRead, on a guard the thread holds
Guard_Clone(t) ==
    /\ temp.guards[t].pc = "idle"
    /\ temp.guards[t].read >= 1
    /\ temp.guards[t].read < MaxGuards
    /\ Guard_step(t, "clone", [bucket_lock EXCEPT !.read = @ + 1], "idle",
                  temp.guards[t].read + 1, temp.guards[t].write)

\* Drop for LockRead
Guard_DropRead(t) ==
    /\ temp.guards[t].pc = "idle"
    /\ temp.guards[t].read >= 1
    /\ Guard_step(t, "drop_read", [bucket_lock EXCEPT !.read = @ - 1], "idle",
                  temp.guards[t].read - 1, temp.guards[t].write)

\* Drop for LockWrite
Guard_DropWrite(t) ==
    /\ temp.guards[t].pc = "idle"
    /\ temp.guards[t].write
    /\ Guard_step(t, "drop_write", [bucket_lock EXCEPT !.write = FALSE], "idle",
                  temp.guards[t].read, FALSE)

NextGuards ==
    \E t \in LockThreads :
        \/ Guard_Read(t)
        \/ Guard_TryRead(t)
        \/ Guard_Write(t)
        \/ Guard_TryWrite(t)
        \/ Guard_Clone(t)
        \/ Guard_DropRead(t)
        \/ Guard_DropWrite(t)

SpecGuards == InitGuards /\ [][NextGuards]_vars

\* the LockRead guards alive, over the threads from the t-th on
RECURSIVE live_reads(_)
live_reads(t) == IF t > NLockThreads THEN 0 ELSE temp.guards[t].read + live_reads(t + 1)

\* C34: a LockWrite guard is alive together with no LockRead guard and no
\* other LockWrite guard, and the read counter of the Lock is the number of
\* LockRead guards alive.
C34_GuardsExclude ==
    /\ \A t \in LockThreads :
          temp.guards[t].write =>
              /\ live_reads(1) = 0
              /\ \A u \in LockThreads \ {t} : ~temp.guards[u].write
    /\ bucket_lock.read = live_reads(1)

\* a thread has cloned its LockRead while another thread is inside write()
C34_Witness ==
    /\ last.op = "clone"
    /\ temp.guards[last.tuple[1]].read = 2
    /\ \E u \in LockThreads : temp.guards[u].pc = "write"


(* ----------------------- schemas and tree rewrites ---------------------- *)
\* nodes of the trees whose schemas are followed
MaxSchemaNodes == 4
\* identifiers in the list of a Projection
MaxFields == 2

\* QueryNode::recalculate_resulting_relation: the children first, then the
\* node from its children as they are now
RECURSIVE recalculate_resulting_relation(_)
recalculate_resulting_relation(node) ==
    LET children == [i \in DOMAIN node.children |->
                        recalculate_resulting_relation(node.children[i])]
        listed(id) == \E i \in 1..Len(node.projections) : node.projections[i] = id
        relation ==
            CASE node.query = "Source" -> node.resulting_relation
              [] node.query = "Projection" -> SelectSeq(children[1].resulting_relation, listed)
              [] node.query = "Selection" -> children[1].resulting_relation
              [] OTHER -> children[1].resulting_relation \o children[2].resulting_relation
    IN  [node EXCEPT !.children = children, !.resulting_relation = relation]

\* the relations under the trees: r(x, y) and s(y, z), no tuples in them
SchemaSources ==
    {QueryNode_source(Relation_new(relation.name, relation.attributes, <<>>)) :
        relation \in {RelationR, RelationS}}

\* the lists a Projection is built on: identifiers of r only, of both and
\* of s only
SchemaFields ==
    UNION {[1..n -> {Identifier(None, base) : base \in {"x", "y", "z"}}] : n \in 0..MaxFields}

\* the conditions of the Selections built: one comparison, and the And of
\* and_equivalence
SchemaConditions ==
    {Condition_new("field1", <<"Equals", 32>>),
     Condition_and(Condition_new("field1", <<"Equals", 32>>),
                   Condition_new("field1", <<"Nequals", 34>>))}

\* the join condition of the inner joins built, on the field r and s share
SchemaJoin == JoinCondition(Identifier(None, "y"), Identifier(None, "y"))

\* the calls that build a tree
BuildOps == {"none", "select", "projection", "cross_product", "inner_join"}

InitSchema ==
    /\ StoreInit({1}) /\ LockInit /\ BlockInit
    /\ \E source \in SchemaSources :
          temp = [phase |-> "plain", name |-> <<"test">>, renamed_at |-> 0, dirs |-> {},
                  files |-> {}, mixed |-> FALSE, plan |-> source]

\* the tree in hand is replaced; last.tuple keeps the tree as it was
Schema_replaced(op, node, ret) ==
    /\ temp' = [temp EXCEPT !.plan = node]
    /\ last' = [NoCall EXCEPT !.op = op, !.tuple = <<temp.plan>>, !.ret = ret]
    /\ UNCHANGED <<directory, inserted, distinct, ops, lockVars, blockVars>>

\* QueryNode::select_on_condition(plan, condition)
Schema_Select(condition) ==
    /\ last.op \in BuildOps
    /\ count(temp.plan) < MaxSchemaNodes
    /\ Schema_replaced("select", select_on_condition(temp.plan, condition), None)

\* QueryNode::projection(plan, fields)
Schema_Projection(fields) ==
    /\ last.op \in BuildOps
    /\ count(temp.plan) < MaxSchemaNodes
    /\ Schema_replaced("projection", projection(temp.plan, fields), None)

\* QueryNode::cross_product, the tree in hand on either side of a source
Schema_CrossProduct(other, swapped) ==
    /\ last.op \in BuildOps
    /\ count(temp.plan) + 1 < MaxSchemaNodes
    /\ Schema_replaced("cross_product",
                       IF swapped THEN cross_product(other, temp.plan)
                       ELSE cross_product(temp.plan, other), None)

\* QueryNode::inner_join, the tree in hand on either side of a source
Schema_InnerJoin(other, swapped) ==
    /\ last.op \in BuildOps
    /\ count(temp.plan) + 1 < MaxSchemaNodes
    /\ Schema_replaced("inner_join",
                       IF swapped THEN inner_join(other, temp.plan, SchemaJoin)
                       ELSE inner_join(temp.plan, other, SchemaJoin), None)

\* plan.recalculate_resulting_relation() on the tree as built
Schema_Recalculate ==
    /\ last.op \in BuildOps
    /\ Schema_replaced("recalculate", recalculate_resulting_relation(temp.plan), None)


\* the nodes of a tree
RECURSIVE nodes_of(_)
nodes_of(node) ==
    {node} \cup UNION {nodes_of(node.children[i]) : i \in 1..Len(node.children)}

\* the identifiers of a Projection's list that its child's schema has, in
\* the order of the list
listed_and_exposed(node) ==
    LET exposed(id) ==
            \E i \in 1..Len(node.children[1].resulting_relation) :
                node.children[1].resulting_relation[i] = id
    IN  SelectSeq(node.projections, exposed)

\* C31 (as claimed): the schema of every Projection lists the identifiers of
\* its list that its child's schema has, in the order of the list, as the
\* constructor leaves the tree and as recalculate_resulting_relation leaves
\* it; recalculating a tree just built changes no schema.
C31_ProjectionSchemaInListOrder ==
    last.op \in {"projection", "recalculate"} =>
        /\ \A node \in nodes_of(temp.plan) :
              node.query = "Projection" => node.resulting_relation = listed_and_exposed(node)
        /\ last.op = "recalculate" => temp.plan = last.tuple[1]


\* QueryNode::find_relations_helper for the node at `path` below the root (a
\* reference to a node is the path to it): <<the names found, the node
\* found>>. A Source adds the first name of `relations` valid for it, in the
\* order of the HashSet; of the names tried at most one is valid for a source.
RECURSIVE find_relations_helper(_, _, _)
find_relations_helper(node, relations, path) ==
    LET of_child(i) == find_relations_helper(node.children[i], relations, path \o <<i>>)
        \* the loop over the children from the i-th on: <<returned early,
        \* ret, found_relations>>
        RECURSIVE loop(_, _, _)
        loop(i, ret, found_relations) ==
            IF i > Len(node.children) THEN <<FALSE, ret, found_relations>>
            ELSE IF of_child(i)[2] = None
                 THEN loop(i + 1, ret, found_relations \cup of_child(i)[1])
            ELSE IF ret = None THEN loop(i + 1, of_child(i)[2], found_relations)
            ELSE <<TRUE, ret, found_relations>>
        looped == loop(1, None, {})
        valid == IF node.query = "Source"
                 THEN {id \in relations : valid_name(MappedRelation(node.source[1], None), id)}
                 ELSE {}
    IN  IF looped[1] THEN <<{}, Some(path)>>
        ELSE IF relations \subseteq looped[3] THEN <<{}, Some(path)>>
        ELSE IF valid # {} THEN <<looped[3] \cup {CHOOSE id \in valid : TRUE}, None>>
        ELSE <<looped[3], None>>

\* QueryNode::find_relations: Some(the path to the node found) or None
find_relations(node, relations) == find_relations_helper(node, relations, <<>>)[2]

\* the sets of relation names looked for
SchemaNames == SUBSET {"r", "s", "t"} \ {{}}

\* plan.find_relations(relations); last.tuple keeps the names, last.ret the
\* node found
Schema_FindRelations(relations) ==
    /\ last.op \in BuildOps
    /\ last' = [NoCall EXCEPT !.op = "find_relations", !.tuple = <<relations>>,
                              !.ret = find_relations(temp.plan, relations)]
    /\ UNCHANGED <<directory, inserted, distinct, ops, lockVars, blockVars, temp>>

\* the node at a path below a node
RECURSIVE node_at(_, _)
node_at(node, path) ==
    IF path = <<>> THEN node ELSE node_at(node.children[Head(path)], Tail(path))

\* whether the sources under a node have every name of a set
covers(node, relations) ==
    \A id \in relations :
        \E source \in nodes_of(node) :
            source.query = "Source" /\ valid_name(MappedRelation(source.source[1], None), id)

\* C32 (as claimed): when the sources of the tree cover the names,
\* find_relations returns a node that covers them none of whose children
\* does: the Source itself when the tree is one matching Source, the parent
\* when two siblings each cover a part, never None.
C32_DeepestCoveringNode ==
    (last.op = "find_relations" /\ covers(temp.plan, last.tuple[1])) =>
        /\ last.ret # None
        /\ covers(node_at(temp.plan, last.ret[1]), last.tuple[1])
        /\ \A i \in 1..Len(node_at(temp.plan, last.ret[1]).children) :
              ~covers(node_at(temp.plan, last.ret[1]).children[i], last.tuple[1])


\* Optimizer::split_projections_over_join on the root: the status, the tree
\* left in place and the value returned. The nodes of the fields are looked
\* for from the Projection after its children were taken, where
\* find_node_with_field has no Source to find; a node it found would be one
\* of that detached Projection, under neither side of the join, so neither
\* list would be given the field.
split_projections_over_join(outer) ==
    LET child == outer.children[1]
        detached == [outer EXCEPT !.children = <<>>]
        left == child.children[1]
        right == child.children[2]
        join_condition == child.join[1]
        unresolved ==
            \E i \in 1..Len(outer.projections) :
                find_node_with_field(detached, outer.projections[i]) = None
        left_fields == <<>>
        right_fields == <<>>
        contains(fields, id) == \E i \in 1..Len(fields) : fields[i] = id
        with(fields, id) == IF contains(fields, id) THEN fields ELSE Append(fields, id)
        split ==
            inner_join(projection(left, left_fields), projection(right, right_fields),
                       join_condition)
        augmented ==
            inner_join(projection(left, with(left_fields, join_condition.left_id)),
                       projection(right, with(right_fields, join_condition.right_id)),
                       join_condition)
    IN  IF outer.query # "Projection" \/ child.query # "InnerJoin"
        THEN [status |-> "Ok", node |-> outer, ret |-> FALSE]
        ELSE IF unresolved THEN [status |-> "panic", node |-> detached, ret |-> FALSE]
        ELSE IF /\ contains(left_fields, join_condition.left_id)
                /\ contains(right_fields, join_condition.right_id)
        THEN [status |-> "Ok", node |-> split, ret |-> TRUE]
        ELSE [status |-> "Ok", node |-> [outer EXCEPT !.children = <<augmented>>],
              ret |-> TRUE]

\* Optimizer::split_projections_over_join(plan); last.ret keeps the status
\* and the value returned
Schema_SplitProjections ==
    LET done == split_projections_over_join(temp.plan)
    IN  /\ last.op \in BuildOps
        /\ temp.plan.query = "Projection"
        /\ Schema_replaced("split_projections", done.node, <<done.status, done.ret>>)

\* the identifiers of a list, and whether a list has one
listed_in(fields) == {fields[i] : i \in 1..Len(fields)}

\* C33 (as claimed): split_projections_over_join on a Projection with a
\* non-empty list over an InnerJoin ends without error; either side of the
\* join is then a Projection on identifiers that the side exposes; and the
\* outer Projection is gone exactly when its list had both join keys.
C33_ProjectionSplitOverJoin ==
    LET before == last.tuple[1]
        join_after == IF temp.plan.query = "InnerJoin" THEN temp.plan ELSE temp.plan.children[1]
        keys == {before.children[1].join[1].left_id, before.children[1].join[1].right_id}
    IN  (/\ last.op = "split_projections"
         /\ before.children[1].query = "InnerJoin"
         /\ before.projections # <<>>) =>
            /\ last.ret = <<"Ok", TRUE>>
            /\ join_after.query = "InnerJoin"
            /\ \A i \in 1..2 :
                  /\ join_after.children[i].query = "Projection"
                  /\ listed_in(join_after.children[i].projections)
                        \subseteq listed_in(before.children[1].children[i].resulting_relation)
            /\ (temp.plan.query = "InnerJoin") <=> (keys \subseteq listed_in(before.projections))


\* Optimizer::commute_selection: <<the tree left in place, the value returned>>
commute_selection(parent) ==
    IF parent.query = "Selection" /\ parent.children[1].query = "Selection"
    THEN <<[parent EXCEPT !.condition = parent.children[1].condition,
                          !.children[1].condition = parent.condition], TRUE>>
    ELSE <<parent, FALSE>>

\* Optimizer::cascade_projection: the Projections directly under a Projection
\* are taken out
cascade_projection(parent) ==
    LET RECURSIVE skipped(_)
        skipped(ptr) == IF ptr.query = "Projection" THEN skipped(ptr.children[1]) ELSE ptr
    IN  IF parent.query = "Projection"
        THEN <<[parent EXCEPT !.children = <<skipped(parent.children[1])>>], TRUE>>
        ELSE <<parent, FALSE>>

\* Optimizer::commute_projection_and_selection: the child is swapped into
\* the place of the parent, and the parent, its children taken, becomes the
\* only child of the node now in place, whose own children are dropped
commute_projection_and_selection(parent) ==
    LET child == parent.children[1]
        swap == \/ parent.query = "Projection" /\ child.query = "Selection"
                \/ parent.query = "Selection" /\ child.query = "Projection"
    IN  IF parent.children # <<>> /\ swap
        THEN <<[child EXCEPT !.children = <<[parent EXCEPT !.children = <<>>]>>], TRUE>>
        ELSE <<parent, FALSE>>

\* Optimizer::commute_join: the two children change places
commute_join(join_node) ==
    IF join_node.query \in {"CrossProduct", "InnerJoin"}
    THEN <<[join_node EXCEPT !.children = <<join_node.children[2], join_node.children[1]>>],
           TRUE>>
    ELSE <<join_node, FALSE>>

\* a rewrite that applies to the tree in hand is made on it
Schema_rewritten(op, done) ==
    /\ last.op \in BuildOps
    /\ done[2]
    /\ Schema_replaced(op, done[1], <<done[2]>>)

\* Optimizer::split_all_ands(plan), where it splits a Selection
Schema_SplitAnds ==
    /\ \E condition \in find_all_selections(temp.plan) : condition.operation[1] = "And"
    /\ Schema_rewritten("split_all_ands", <<split_all_ands(temp.plan), TRUE>>)

\* Optimizer::commute_selection(plan)
Schema_CommuteSelection ==
    /\ temp.plan.query = "Selection"
    /\ Schema_rewritten("commute_selection", commute_selection(temp.plan))

\* Optimizer::cascade_projection(plan)
Schema_CascadeProjection ==
    /\ temp.plan.query = "Projection"
    /\ Schema_rewritten("cascade_projection", cascade_projection(temp.plan))

\* Optimizer::commute_projection_and_selection(plan)
Schema_CommuteProjectionAndSelection ==
    /\ temp.plan.query \in {"Projection", "Selection"}
    /\ Schema_rewritten("commute_projection_and_selection",
                        commute_projection_and_selection(temp.plan))

\* Optimizer::commute_join(plan)
Schema_CommuteJoin ==
    /\ temp.plan.query \in {"CrossProduct", "InnerJoin"}
    /\ Schema_rewritten("commute_join", commute_join(temp.plan))

\* the rewrites of the optimizer
RewriteOps == {"split_all_ands", "commute_selection", "cascade_projection",
               "commute_projection_and_selection", "commute_join"}

\* whether the schema of every node of a tree follows from its children's: a
\* join or cross product has its left child's followed by its right child's,
\* a Selection its child's, a Projection identifiers of its child's only
consistent(tree) ==
    \A node \in nodes_of(tree) :
        CASE node.query \in {"CrossProduct", "InnerJoin"} ->
                /\ Len(node.children) = 2
                /\ node.resulting_relation =
                      node.children[1].resulting_relation \o node.children[2].resulting_relation
          [] node.query = "Selection" ->
                /\ Len(node.children) = 1
                /\ node.resulting_relation = node.children[1].resulting_relation
          [] node.query = "Projection" ->
                /\ Len(node.children) = 1
                /\ listed_in(node.resulting_relation)
                      \subseteq listed_in(node.children[1].resulting_relation)
          [] OTHER -> TRUE

\* C36 (as claimed): a rewrite of the optimizer made on a tree whose schemas
\* are consistent leaves a tree whose schemas are consistent.
C36_RewritesKeepSchemas ==
    (last.op \in RewriteOps /\ consistent(last.tuple[1])) => consistent(temp.plan)


NextSchema ==
    \/ \E condition \in SchemaConditions : Schema_Select(condition)
    \/ \E fields \in SchemaFields : Schema_Projection(fields)
    \/ \E other \in SchemaSources, swapped \in BOOLEAN : Schema_CrossProduct(other, swapped)
    \/ \E other \in SchemaSources, swapped \in BOOLEAN : Schema_InnerJoin(other, swapped)
    \/ Schema_Recalculate
    \/ \E relations \in SchemaNames : Schema_FindRelations(relations)
    \/ Schema_SplitProjections
    \/ Schema_SplitAnds
    \/ Schema_CommuteSelection
    \/ Schema_CascadeProjection
    \/ Schema_CommuteProjectionAndSelection
    \/ Schema_CommuteJoin

SpecSchema == InitSchema /\ [][NextSchema]_vars

====
